---------------------------- MODULE Spec2Model ----------------------------
(***************************************************************************)
(* A model of pgmerge: the merge (upsert) of one CSV file into one table   *)
(* (pgmerge/db_import.py), the export that produces such files             *)
(* (pgmerge/db_export.py) and the foreign-key dependency graph that orders *)
(* the tables (pgmerge/db_graph.py).                                       *)
(*                                                                         *)
(* The database of the merge model holds two tables:                       *)
(*   other(id PRIMARY KEY, code)                                           *)
(*   the_table(id, code, ref REFERENCES other(id))                         *)
(* the_table is the table merged into; whether it has a primary key on id, *)
(* a unique constraint on code and a configured alternate_key varies.      *)
(* SQL statements are modelled by what PostgreSQL computes for them on the *)
(* rows of these tables: three-valued comparisons, LEFT JOIN, the row      *)
(* counts the statements report, and the constraint violations they raise. *)
(***************************************************************************)
EXTENDS Integers, Sequences, FiniteSets, TLC

(***************************************************************************)
(* Bounds of the model.                                                    *)
(***************************************************************************)
MaxFileRows == 2
MaxDestRows == 2
MaxTables == 3

(***************************************************************************)
(* SQL values.  NULL is a value of every column type; the other values are *)
(* positive integers.                                                      *)
(***************************************************************************)
NULL == 0
IdValues == {1, 2}
CodeValues == {NULL, 1}
RefValues == {NULL, 1}

\* a = b in SQL is true only for two equal non-NULL values (NULL and false
\* both reject a row in WHERE and ON).
SqlEq(a, b) == a # NULL /\ b # NULL /\ a = b

\* (a = b OR (a IS NULL AND b IS NULL))
NullSafeEq(a, b) == SqlEq(a, b) \/ (a = NULL /\ b = NULL)

Range(s) == {s[i] : i \in DOMAIN s}

RECURSIVE Flatten(_)
Flatten(ss) == IF ss = <<>> THEN <<>> ELSE Head(ss) \o Flatten(Tail(ss))

RECURSIVE SetToSeq(_)
SetToSeq(S) ==
    IF S = {} THEN <<>>
    ELSE LET x == CHOOSE y \in S : \A z \in S : y <= z
         IN <<x>> \o SetToSeq(S \ {x})


RemoveAt(s, i) == SubSeq(s, 1, i - 1) \o SubSeq(s, i + 1, Len(s))

InsertAt(s, i, vals) == SubSeq(s, 1, i - 1) \o vals \o SubSeq(s, i, Len(s))

\* list.index(x): the first position of x in s.
IndexOf(s, x) == CHOOSE i \in DOMAIN s : s[i] = x /\ \A j \in 1..(i - 1) : s[j] # x

\* reversed(sorted(idxs)) for a list of indexes.
RECURSIVE SortDesc(_)
SortDesc(idxs) ==
    IF idxs = <<>> THEN <<>>
    ELSE LET m == CHOOSE i \in DOMAIN idxs : \A j \in DOMAIN idxs : idxs[j] <= idxs[i]
         IN <<idxs[m]>> \o SortDesc(RemoveAt(idxs, m))

RECURSIVE DeleteAll(_, _)
DeleteAll(listy, idxs) ==
    IF idxs = <<>> THEN listy ELSE DeleteAll(RemoveAt(listy, Head(idxs)), Tail(idxs))

(***************************************************************************)
(* utils.replace_indexes: delete the given indexes, highest first, then    *)
(* insert the new values at the lowest of them.                            *)
(***************************************************************************)
replace_indexes(listy, idxs_to_replace, new_values) ==
    LET idx_to_add == CHOOSE i \in Range(idxs_to_replace) :
                          \A j \in Range(idxs_to_replace) : i <= j
    IN InsertAt(DeleteAll(listy, SortDesc(idxs_to_replace)), idx_to_add, new_values)

(***************************************************************************)
(* The catalog (what the inspector answers) and the configuration.         *)
(***************************************************************************)
VARIABLES
    pk_columns,          \* inspector.get_pk_constraint(the_table)['constrained_columns']
    unique_constraints,  \* inspector.get_unique_constraints(the_table): column lists
    table_fks,           \* inspector.get_foreign_keys(the_table)
    config_per_table,    \* table name -> config (a dict: its DOMAIN is its keys)
    dest,                \* rows of the_table, in physical order
    other,               \* rows of other
    file,                \* data rows of the CSV file, a tuple of values each
    file_source,         \* "none", "user" (any file) or "export" (written by export)
    pc,                  \* position in pg_upsert
    run,                 \* 1: first merge of the file, 2: the same file merged again
    columns,             \* pg_upsert's local: the configured columns
    id_columns,          \* pg_upsert's local: the identifier columns
    foreign_columns,     \* pg_upsert's local: the shape of the file
    tmp_copy,            \* _tmp_copy_<table>: None or its rows
    tmp_final,           \* _tmp_final_<table>: None or its rows
    stats,               \* the stats of the merge in progress
    error,               \* the exception pg_upsert ended with, or "none"
    dest_before,         \* history: the_table when the merge in progress started
    inserted,            \* history: the rows the insert step added
    updated,             \* history: positions of the_table the update step changed
    first_stats,         \* history: the stats the first merge returned
    table_graph,         \* edges of the dependency graph under work
    graph_tables,        \* nodes of the dependency graph
    simple_cycles,       \* break_cycles: the sorted cycles still to process
    edges_removed,       \* break_cycles: the edges removed so far
    insertion_order,     \* get_insertion_order's result
    copy_of_graph,       \* get_insertion_order: the copy whose cycles are broken
    topological_order,   \* nx.topological_sort: the nodes yielded so far
    graph_error,         \* the exception get_insertion_order raised, or "none"
    gpc,                 \* position in get_insertion_order
    dest_tables,         \* import_all_new: the tables of the files, one per file
    suspend_foreign_keys,\* import_all_new: --disable-foreign-keys
    fail_on_warning,     \* import_all_new: not --ignore-cycles
    table_catalog,       \* per table: its id columns and its configured columns
    import_pairs,        \* import_all_new: the (file, table) pairs, sorted
    next_pair,           \* import_all_new: index of the pair the loop is at
    merged,              \* the tables whose file pg_upsert has merged, in order
    error_tables,        \* import_all_new: error_tables
    skipped_files,       \* import_all_new: skipped_files
    session_replication_role, \* the session's setting: "DEFAULT" or "REPLICA"
    commits,             \* number of connection.commit() calls
    raised,              \* the exception import_all_new raised, or "none"
    expected_dest_tables_count,   \* import_all_new: expected_dest_tables_count
    expected_import_files_count,  \* import_all_new: expected_import_files_count
    success_tables,      \* import_all_new: success_tables of the summary
    success_files,       \* import_all_new: success_files of the summary
    ipc,                 \* position in import_all_new
    seeds,               \* get_all_dependent_tables: the given tables
    dependent_tables,    \* get_all_dependent_tables: its result
    next_seed,           \* get_all_dependent_tables: index of the table at hand
    dfs_stack,           \* nx.dfs_successors: the tables whose successors are being visited
    visited,             \* nx.dfs_successors: the tables visited
    dependency_tree,     \* nx.dfs_successors: the edges of the tree, parent to child
    dpc,                 \* position in get_all_dependent_tables
    tables_config,       \* the configuration file: a list of [table, config] entries
    subset_names,        \* validate_table_configs_with_schema: subset names seen
    next_entry,          \* validate_table_configs_with_schema: index of the entry at hand
    config_error,        \* the ConfigInvalid message raised, or "none"
    config_per_subset,   \* convert_to_config_per_subset's result
    file_configs,        \* export_tables_per_config: the file configs it exports with
    cpc                  \* position in the handling of the configuration

mergeVars == <<pk_columns, unique_constraints, table_fks, config_per_table, dest, other, file,
               file_source, pc, run, columns, id_columns, foreign_columns, tmp_copy,
               tmp_final, stats, error, dest_before, inserted, updated, first_stats>>

graphVars == <<table_graph, graph_tables, simple_cycles, edges_removed,
               insertion_order, copy_of_graph, topological_order, graph_error, gpc>>

importVars == <<dest_tables, suspend_foreign_keys, fail_on_warning, table_catalog,
                import_pairs, next_pair, merged, error_tables, skipped_files,
                session_replication_role, commits, raised, expected_dest_tables_count,
                expected_import_files_count, success_tables, success_files, ipc>>

dependentVars == <<seeds, dependent_tables, next_seed, dfs_stack, visited, dependency_tree, dpc>>

configVars == <<tables_config, subset_names, next_entry, config_error, config_per_subset,
                file_configs, cpc>>

vars == <<mergeVars, graphVars, importVars, dependentVars, configVars>>

\* inspector.get_columns
TableColumns(table) ==
    IF table = "the_table" THEN <<"id", "code", "ref">> ELSE <<"id", "code">>

\* inspector.get_foreign_keys
TableFks(table) == IF table = "the_table" THEN table_fks ELSE <<>>

\* The foreign key of the_table in the merges: ref refers to other.
TheTableFks ==
    << [name |-> "fk", constrained_columns |-> <<"ref">>,
        referred_table |-> "other", referred_columns |-> <<"id">>] >>

TableRows(table) == IF table = "the_table" THEN dest ELSE other

\* The row a LEFT JOIN supplies for a table without a match.
NullRow(table) == [c \in Range(TableColumns(table)) |-> NULL]

EmptyConfig == [k \in {} |-> <<>>]

\* A python list of strings or None: None is the list holding this name.
None == <<"None">>

\* dict.get(key, None)
ConfigGet(config, key) == IF key \in DOMAIN config THEN config[key] ELSE None

(***************************************************************************)
(* db_export.get_unique_columns: the primary-key columns followed by the   *)
(* columns of every unique constraint.                                     *)
(***************************************************************************)
\* get_unique_columns returning the primary key only.
get_unique_columns_pk_only == pk_columns

get_unique_columns == pk_columns \o Flatten(unique_constraints)

(***************************************************************************)
(* db_export.replace_local_columns_with_alternate_keys.  A foreign column  *)
(* is [col, path]; the loop over the table's foreign keys is the recursion *)
(* over fks.                                                               *)
(***************************************************************************)
RECURSIVE ReplaceForFks(_, _, _)
ReplaceForFks(foreign_cols, fks, local_columns) ==
    IF fks = <<>> THEN foreign_cols
    ELSE LET fky == Head(fks)
             fk_columns == fky.constrained_columns
             foreign_table == fky.referred_table
             skip == \/ ~(Range(fk_columns) \subseteq Range(local_columns))
                     \/ foreign_table \notin DOMAIN config_per_table
                     \/ "alternate_key" \notin DOMAIN config_per_table[foreign_table]
             new_columns == config_per_table[foreign_table]["alternate_key"]
             foreign_column_names == [i \in DOMAIN foreign_cols |-> foreign_cols[i].col]
             idxs_to_replace == [i \in DOMAIN fk_columns |->
                                     IndexOf(foreign_column_names, fk_columns[i])]
             new_values == [i \in DOMAIN new_columns |->
                                [col |-> new_columns[i], path |-> <<fky.name>>]]
         IN ReplaceForFks(IF skip THEN foreign_cols
                          ELSE replace_indexes(foreign_cols, idxs_to_replace, new_values),
                          Tail(fks), local_columns)

replace_local_columns_with_alternate_keys(table, local_columns) ==
    ReplaceForFks([i \in DOMAIN local_columns |-> [col |-> local_columns[i], path |-> <<>>]],
                  TableFks(table), local_columns)

(***************************************************************************)
(* ORDER BY cols: ascending, NULLs last, rows equal on cols left in order. *)
(***************************************************************************)
ValLess(a, b) == IF a = NULL THEN FALSE ELSE IF b = NULL THEN TRUE ELSE a < b

RECURSIVE RowLess(_, _, _)
RowLess(r1, r2, cols) ==
    IF cols = <<>> THEN FALSE
    ELSE \/ ValLess(r1[Head(cols)], r2[Head(cols)])
         \/ r1[Head(cols)] = r2[Head(cols)] /\ RowLess(r1, r2, Tail(cols))

RECURSIVE OrderBy(_, _)
OrderBy(rows, cols) ==
    IF rows = <<>> THEN <<>>
    ELSE LET m == CHOOSE i \in DOMAIN rows :
                      /\ \A j \in DOMAIN rows : ~RowLess(rows[j], rows[i], cols)
                      /\ \A j \in 1..(i - 1) : RowLess(rows[i], rows[j], cols)
         IN <<rows[m]>> \o OrderBy(RemoveAt(rows, m), cols)

\* The foreign keys of the table that some path of the foreign columns ends in.
FksInPaths(table, foreign_cols) ==
    SelectSeq(TableFks(table),
              LAMBDA fk : \E i \in DOMAIN foreign_cols :
                              /\ Len(foreign_cols[i].path) > 0
                              /\ foreign_cols[i].path[Len(foreign_cols[i].path)] = fk.name)

NoJoin == [k \in {} |-> <<>>]

(***************************************************************************)
(* db_export.sql_join_from_foreign_key with its default keys, as the       *)
(* export uses it: LEFT JOIN the referred table ON constrained column =    *)
(* referred column, NULL-safe.  For one row of the table, the joined rows  *)
(* of every foreign key, as functions fk name -> row of the referred table.*)
(***************************************************************************)
RECURSIVE ExportJoins(_, _)
ExportJoins(row, fks) ==
    IF fks = <<>> THEN <<NoJoin>>
    ELSE LET fk == Head(fks)
             matches == SelectSeq(TableRows(fk.referred_table),
                            LAMBDA o : \A i \in DOMAIN fk.constrained_columns :
                                NullSafeEq(row[fk.constrained_columns[i]],
                                           o[fk.referred_columns[i]]))
             joined == IF matches = <<>> THEN <<NullRow(fk.referred_table)>> ELSE matches
             rest == ExportJoins(row, Tail(fks))
         IN Flatten([i \in DOMAIN joined |->
                        [j \in DOMAIN rest |-> (fk.name :> joined[i]) @@ rest[j]]])

(***************************************************************************)
(* The rows db_export.sql_select_table_with_foreign_columns selects: one   *)
(* tuple per joined row, a value per foreign column (paths of length <= 1).*)
(***************************************************************************)
sql_select_table_with_foreign_columns(table, foreign_cols, order_columns) ==
    LET sorted == OrderBy(TableRows(table), order_columns)
        fks == FksInPaths(table, foreign_cols)
        project(row, join) ==
            [i \in DOMAIN foreign_cols |->
                IF foreign_cols[i].path = <<>> THEN row[foreign_cols[i].col]
                ELSE join[foreign_cols[i].path[1]][foreign_cols[i].col]]
    IN Flatten([r \in DOMAIN sorted |->
           LET joins == ExportJoins(sorted[r], fks)
           IN [j \in DOMAIN joins |-> project(sorted[r], joins[j])]])

(***************************************************************************)
(* db_export.export_tables_per_config for the file of the_table: the rows  *)
(* written to the_table.csv.                                               *)
(***************************************************************************)
export_tables_per_config ==
    LET table == "the_table"
        file_config == config_per_table[table]
        local_columns == IF "columns" \in DOMAIN file_config
                         THEN file_config["columns"] ELSE TableColumns(table)
        foreign_cols == replace_local_columns_with_alternate_keys(table, local_columns)
        order_columns == SelectSeq(get_unique_columns,
                                   LAMBDA col : col \in Range(local_columns))
    IN sql_select_table_with_foreign_columns(table, foreign_cols, order_columns)

(***************************************************************************)
(* db_import.sql_select_table_with_local_columns with                      *)
(* sql_joins_for_each_path and replace_foreign_columns_with_local_columns: *)
(* the translation of the rows of _tmp_copy into rows shaped like the      *)
(* destination table.                                                      *)
(***************************************************************************)
\* The joins as inner joins: a row of the file without a match is dropped.
RECURSIVE ImportJoinsInner(_, _, _)
ImportJoinsInner(tuple, fks, foreign_cols) ==
    IF fks = <<>> THEN <<NoJoin>>
    ELSE LET fk == Head(fks)
             join_idxs == {i \in DOMAIN foreign_cols :
                              /\ Len(foreign_cols[i].path) > 0
                              /\ foreign_cols[i].path[Len(foreign_cols[i].path)] = fk.name}
             joined == SelectSeq(TableRows(fk.referred_table),
                            LAMBDA o : \A i \in join_idxs :
                                NullSafeEq(tuple[i], o[foreign_cols[i].col]))
             rest == ImportJoinsInner(tuple, Tail(fks), foreign_cols)
         IN Flatten([i \in DOMAIN joined |->
                        [j \in DOMAIN rest |-> (fk.name :> joined[i]) @@ rest[j]]])

\* sql_joins_for_each_path: LEFT JOIN the referred table ON, for every column of
\* the file whose path ends in the foreign key, file column = column of the
\* referred table, NULL-safe.
RECURSIVE ImportJoins(_, _, _)
ImportJoins(tuple, fks, foreign_cols) ==
    IF fks = <<>> THEN <<NoJoin>>
    ELSE LET fk == Head(fks)
             join_idxs == {i \in DOMAIN foreign_cols :
                              /\ Len(foreign_cols[i].path) > 0
                              /\ foreign_cols[i].path[Len(foreign_cols[i].path)] = fk.name}
             matches == SelectSeq(TableRows(fk.referred_table),
                            LAMBDA o : \A i \in join_idxs :
                                NullSafeEq(tuple[i], o[foreign_cols[i].col]))
             joined == IF matches = <<>> THEN <<NullRow(fk.referred_table)>> ELSE matches
             rest == ImportJoins(tuple, Tail(fks), foreign_cols)
         IN Flatten([i \in DOMAIN joined |->
                        [j \in DOMAIN rest |-> (fk.name :> joined[i]) @@ rest[j]]])

\* replace_foreign_columns_with_local_columns on select items [name, fk, ref, pos]:
\* the column named name is join_<fk>.<ref>, or column pos of the file (fk = "").
RECURSIVE ReplaceWithLocal(_, _)
ReplaceWithLocal(items, fks) ==
    IF fks = <<>> THEN items
    ELSE LET fk == Head(fks)
             idxs_to_replace == SetToSeq({i \in DOMAIN items : items[i].fk = fk.name})
             new_values == [i \in DOMAIN fk.referred_columns |->
                               [name |-> fk.constrained_columns[i], fk |-> fk.name,
                                ref |-> fk.referred_columns[i], pos |-> 0]]
         IN ReplaceWithLocal(replace_indexes(items, idxs_to_replace, new_values), Tail(fks))

replace_foreign_columns_with_local_columns(table, foreign_cols) ==
    ReplaceWithLocal(
        [i \in DOMAIN foreign_cols |->
            [name |-> foreign_cols[i].col,
             fk |-> IF Len(foreign_cols[i].path) = 1 THEN foreign_cols[i].path[1] ELSE "",
             ref |-> "", pos |-> i]],
        FksInPaths(table, foreign_cols))

sql_select_table_with_local_columns(table, src_rows, foreign_cols) ==
    LET fks == FksInPaths(table, foreign_cols)
        items == replace_foreign_columns_with_local_columns(table, foreign_cols)
        project(tuple, join) ==
            [c \in {items[i].name : i \in DOMAIN items} |->
                LET it == items[CHOOSE i \in DOMAIN items : items[i].name = c]
                IN IF it.fk = "" THEN tuple[it.pos] ELSE join[it.fk][it.ref]]
    IN Flatten([r \in DOMAIN src_rows |->
           LET joins == ImportJoins(src_rows[r], fks, foreign_cols)
           IN [j \in DOMAIN joins |-> project(src_rows[r], joins[j])]])

(***************************************************************************)
(* The statements of upsert_table_to_table, on rows.                       *)
(***************************************************************************)
\* The WHERE clause of sql_delete_identical_rows_between_tables.
IdenticalRows(ref, dlt, all_column_names) ==
    \A c \in Range(all_column_names) : NullSafeEq(ref[c], dlt[c])

\* DELETE FROM dlt USING ref WHERE ...: the rows of dlt that are left.
sql_delete_identical_rows_between_tables(delete_rows, reference_rows, all_column_names) ==
    SelectSeq(delete_rows,
              LAMBDA d : ~\E i \in DOMAIN reference_rows :
                             IdenticalRows(reference_rows[i], d, all_column_names))

\* ON (ins.id, ...) = (_tft.id, ...): a row comparison, true only when every
\* pair is equal and not NULL.
InsertJoinOn(ins, ref, id_column_names) ==
    \A c \in Range(id_column_names) : SqlEq(ins[c], ref[c])

\* WHERE (ins.id, ...) IS NULL: every field is NULL.
RowIsNull(ins, id_column_names) == \A c \in Range(id_column_names) : ins[c] = NULL

\* INSERT INTO ins(cols) (SELECT ... LEFT JOIN ins ON ... WHERE ... IS NULL ORDER BY
\* __row_number): the rows of the reference table that are inserted, in order.
sql_insert_rows_not_in_table(insert_rows, reference_rows, id_column_names, column_names) ==
    LET joined(r) ==
            LET m == SelectSeq(insert_rows, LAMBDA d : InsertJoinOn(d, r, id_column_names))
            IN IF m = <<>> THEN <<NullRow("the_table")>> ELSE m
        selected(r) == SelectSeq(joined(r), LAMBDA d : RowIsNull(d, id_column_names))
        new_row(r) == [c \in Range(TableColumns("the_table")) |->
                          IF c \in Range(column_names) THEN r[c] ELSE NULL]
    IN Flatten([i \in DOMAIN reference_rows |->
           [j \in DOMAIN selected(reference_rows[i]) |-> new_row(reference_rows[i])]])

\* The UPDATE without its WHERE clause.
UpdateWhereOmitted(upd, ref, id_column_names) == TRUE

\* The WHERE clause of sql_update_rows_between_tables.
UpdateWhere(upd, ref, id_column_names) ==
    \A c \in Range(id_column_names) : SqlEq(upd[c], ref[c])

\* UPDATE upd SET ... FROM ref WHERE ...: for each row of upd, the rows of ref it
\* joins with.  A row with several is updated once, from any one of them.
sql_update_rows_between_tables(update_rows, reference_rows, id_column_names) ==
    [i \in DOMAIN update_rows |->
        {j \in DOMAIN reference_rows :
            UpdateWhere(update_rows[i], reference_rows[j], id_column_names)}]

\* SET col = ref.col for every configured column.
UpdatedRow(upd, ref, all_column_names) ==
    [c \in DOMAIN upd |-> IF c \in Range(all_column_names) THEN ref[c] ELSE upd[c]]

(***************************************************************************)
(* The constraints of the_table that PostgreSQL enforces on INSERT and     *)
(* UPDATE: the primary key (not NULL, unique), the unique constraints      *)
(* (unique among non-NULL values) and the foreign keys (MATCH SIMPLE).     *)
(***************************************************************************)
ViolatesConstraints(rows, other_rows) ==
    \/ \E i \in DOMAIN rows : \E c \in Range(pk_columns) : rows[i][c] = NULL
    \/ /\ pk_columns # <<>>
       /\ \E i, j \in DOMAIN rows :
              i < j /\ \A c \in Range(pk_columns) : rows[i][c] = rows[j][c]
    \/ \E u \in DOMAIN unique_constraints : \E i, j \in DOMAIN rows :
           i < j /\ \A c \in Range(unique_constraints[u]) : SqlEq(rows[i][c], rows[j][c])
    \/ \E f \in DOMAIN table_fks : \E i \in DOMAIN rows :
           LET fk == table_fks[f]
               referred_rows == IF fk.referred_table = "the_table" THEN rows ELSE other_rows
           IN /\ \A c \in Range(fk.constrained_columns) : rows[i][c] # NULL
              /\ ~\E k \in DOMAIN referred_rows :
                     \A c \in DOMAIN fk.constrained_columns :
                         referred_rows[k][fk.referred_columns[c]] = rows[i][fk.constrained_columns[c]]

NoTable == [exists |-> FALSE, rows |-> <<>>]
TableOf(rows) == [exists |-> TRUE, rows |-> rows]

NoStats == [skip |-> 0, insert |-> 0, update |-> 0, total |-> 0]

(***************************************************************************)
(* pg_upsert, lines 114-137: defaults and the checks of the parameters.    *)
(***************************************************************************)
FileConfig == IF "the_table" \in DOMAIN config_per_table
              THEN config_per_table["the_table"] ELSE EmptyConfig

ConfiguredColumns ==
    IF ConfigGet(FileConfig, "columns") = None
    THEN TableColumns("the_table") ELSE ConfigGet(FileConfig, "columns")

IdColumns ==
    IF ConfigGet(FileConfig, "alternate_key") = None
    THEN get_unique_columns ELSE ConfigGet(FileConfig, "alternate_key")

\* The check against None instead of the empty list: a list is never None.
NoIdentifierIsNone(ids) == ids = None

\* len(id_columns) == 0
NoIdentifier(ids) == Len(ids) = 0

\* The temporary table created before the parameters are checked.
CreateBeforeCheck ==
    /\ pc = "queued"
    /\ columns' = ConfiguredColumns
    /\ id_columns' = IdColumns
    /\ dest_before' = dest
    /\ inserted' = <<>>
    /\ updated' = {}
    /\ stats' = NoStats
    /\ tmp_copy' = TableOf(<<>>)
    /\ IF NoIdentifier(IdColumns)
       THEN pc' = "failed" /\ error' = "UnsupportedSchema"
       ELSE IF Range(ConfiguredColumns) \ Range(TableColumns("the_table")) # {}
       THEN pc' = "failed" /\ error' = "InputParameters"
       ELSE IF Range(IdColumns) \ Range(ConfiguredColumns) # {}
       THEN pc' = "failed" /\ error' = "InputParameters"
       ELSE pc' = "create_tmp_copy" /\ error' = "none"
    /\ UNCHANGED <<pk_columns, unique_constraints, table_fks, config_per_table, dest, other, file,
                   file_source, run, foreign_columns, tmp_final, first_stats,
                   graphVars, importVars, dependentVars, configVars>>

\* pg_upsert, lines 110-137: the parameters are checked before any statement.
CheckParameters ==
    /\ pc = "queued"
    /\ columns' = ConfiguredColumns
    /\ id_columns' = IdColumns
    /\ dest_before' = dest
    /\ inserted' = <<>>
    /\ updated' = {}
    /\ stats' = NoStats
    /\ IF NoIdentifier(IdColumns)
       THEN pc' = "failed" /\ error' = "UnsupportedSchema"
       ELSE IF Range(ConfiguredColumns) \ Range(TableColumns("the_table")) # {}
       THEN pc' = "failed" /\ error' = "InputParameters"
       ELSE IF Range(IdColumns) \ Range(ConfiguredColumns) # {}
       THEN pc' = "failed" /\ error' = "InputParameters"
       ELSE pc' = "create_tmp_copy" /\ error' = "none"
    /\ UNCHANGED <<pk_columns, unique_constraints, table_fks, config_per_table, dest, other, file,
                   file_source, run, foreign_columns, tmp_copy, tmp_final, first_stats,
                   graphVars, importVars, dependentVars, configVars>>

catalogVars == <<pk_columns, unique_constraints, table_fks, config_per_table, other>>

\* Any statement that fails raises out of pg_upsert.
SqlError ==
    /\ pc' = "failed"
    /\ error' = "SqlError"

(***************************************************************************)
(* pg_upsert, lines 139-151: CREATE TEMP TABLE _tmp_copy AS ... LIMIT 0.   *)
(***************************************************************************)
CreateTmpCopy ==
    /\ pc = "create_tmp_copy"
    /\ foreign_columns' = replace_local_columns_with_alternate_keys("the_table", columns)
    /\ tmp_copy' = TableOf(<<>>)
    /\ pc' = "copy"
    /\ UNCHANGED <<catalogVars, dest, file, file_source, run, columns, id_columns,
                   tmp_final, stats, error, dest_before, inserted, updated, first_stats,
                   graphVars, importVars, dependentVars, configVars>>

(***************************************************************************)
(* lines 153-158: COPY _tmp_copy FROM the file; total is its row count.    *)
(* A data row with more or fewer values than the table has columns fails.  *)
(***************************************************************************)
CopyFile ==
    /\ pc = "copy"
    /\ IF \E i \in DOMAIN file : Len(file[i]) # Len(foreign_columns)
       THEN SqlError /\ UNCHANGED <<tmp_copy, stats>>
       ELSE /\ tmp_copy' = TableOf(file)
            /\ stats' = [stats EXCEPT !.total = Len(file)]
            /\ pc' = "analyze_tmp_copy"
            /\ UNCHANGED error
    /\ UNCHANGED <<catalogVars, dest, file, file_source, run, columns, id_columns,
                   foreign_columns, tmp_final, dest_before, inserted, updated,
                   first_stats, graphVars, importVars, dependentVars, configVars>>

\* lines 160-164: ANALYZE _tmp_copy.
AnalyzeTmpCopy ==
    /\ pc = "analyze_tmp_copy"
    /\ pc' = "create_tmp_final"
    /\ UNCHANGED <<catalogVars, dest, file, file_source, run, columns, id_columns,
                   foreign_columns, tmp_copy, tmp_final, stats, error, dest_before,
                   inserted, updated, first_stats, graphVars, importVars, dependentVars, configVars>>

(***************************************************************************)
(* lines 166-176: CREATE TEMP TABLE _tmp_final AS the translated rows.     *)
(***************************************************************************)
CreateTmpFinal ==
    /\ pc = "create_tmp_final"
    /\ tmp_final' = TableOf(sql_select_table_with_local_columns(
                                "the_table", tmp_copy.rows, foreign_columns))
    /\ pc' = "create_index"
    /\ UNCHANGED <<catalogVars, dest, file, file_source, run, columns, id_columns,
                   foreign_columns, tmp_copy, stats, error, dest_before, inserted,
                   updated, first_stats, graphVars, importVars, dependentVars, configVars>>

\* lines 177-180: CREATE INDEX ON _tmp_final (id columns).
CreateIndex ==
    /\ pc = "create_index"
    /\ pc' = "delete_identical"
    /\ UNCHANGED <<catalogVars, dest, file, file_source, run, columns, id_columns,
                   foreign_columns, tmp_copy, tmp_final, stats, error, dest_before,
                   inserted, updated, first_stats, graphVars, importVars, dependentVars, configVars>>

(***************************************************************************)
(* upsert_table_to_table, lines 206-208: delete the rows of _tmp_final     *)
(* identical to a row of the destination; skip is the number deleted.      *)
(***************************************************************************)
DeleteIdentical ==
    /\ pc = "delete_identical"
    /\ LET left == sql_delete_identical_rows_between_tables(tmp_final.rows, dest, columns)
       IN /\ tmp_final' = TableOf(left)
          /\ stats' = [stats EXCEPT !.skip = Len(tmp_final.rows) - Len(left)]
    /\ pc' = "insert"
    /\ UNCHANGED <<catalogVars, dest, file, file_source, run, columns, id_columns,
                   foreign_columns, tmp_copy, error, dest_before, inserted, updated,
                   first_stats, graphVars, importVars, dependentVars, configVars>>

(***************************************************************************)
(* lines 210-212: insert the rows of _tmp_final that join with no row of   *)
(* the destination on the id columns; insert is the number inserted.       *)
(***************************************************************************)
InsertMissing ==
    /\ pc = "insert"
    /\ LET new_rows == sql_insert_rows_not_in_table(dest, tmp_final.rows, id_columns, columns)
       IN IF ViolatesConstraints(dest \o new_rows, other)
          THEN SqlError /\ UNCHANGED <<dest, stats, inserted>>
          ELSE /\ dest' = dest \o new_rows
               /\ stats' = [stats EXCEPT !.insert = Len(new_rows)]
               /\ inserted' = new_rows
               /\ pc' = "delete_inserted"
               /\ UNCHANGED error
    /\ UNCHANGED <<catalogVars, file, file_source, run, columns, id_columns,
                   foreign_columns, tmp_copy, tmp_final, dest_before, updated,
                   first_stats, graphVars, importVars, dependentVars, configVars>>

\* lines 213-214: delete the rows of _tmp_final that were just inserted.
DeleteInserted ==
    /\ pc = "delete_inserted"
    /\ tmp_final' = TableOf(sql_delete_identical_rows_between_tables(
                                tmp_final.rows, dest, columns))
    /\ pc' = "update"
    /\ UNCHANGED <<catalogVars, dest, file, file_source, run, columns, id_columns,
                   foreign_columns, tmp_copy, stats, error, dest_before, inserted,
                   updated, first_stats, graphVars, importVars, dependentVars, configVars>>

(***************************************************************************)
(* lines 216-218: update the rows of the destination that join with a row  *)
(* of _tmp_final on the id columns; update is the number of destination    *)
(* rows updated.  A destination row that joins with several rows is        *)
(* updated from one of them, and PostgreSQL does not say which.            *)
(***************************************************************************)
UpdateRows ==
    /\ pc = "update"
    /\ LET targets == sql_update_rows_between_tables(dest, tmp_final.rows, id_columns)
           hit == {i \in DOMAIN dest : targets[i] # {}}
       IN \E from \in [hit -> DOMAIN tmp_final.rows] :
            /\ \A i \in hit : from[i] \in targets[i]
            /\ LET new_dest == [i \in DOMAIN dest |->
                                   IF i \in hit
                                   THEN UpdatedRow(dest[i], tmp_final.rows[from[i]], columns)
                                   ELSE dest[i]]
               IN IF ViolatesConstraints(new_dest, other)
                  THEN SqlError /\ UNCHANGED <<dest, stats, updated>>
                  ELSE /\ dest' = new_dest
                       /\ stats' = [stats EXCEPT !.update = Cardinality(hit)]
                       /\ updated' = hit
                       /\ pc' = "drop_tmp_copy"
                       /\ UNCHANGED error
    /\ UNCHANGED <<catalogVars, file, file_source, run, columns, id_columns,
                   foreign_columns, tmp_copy, tmp_final, dest_before, inserted,
                   first_stats, graphVars, importVars, dependentVars, configVars>>

\* lines 185-189: DROP TABLE _tmp_copy.
DropTmpCopy ==
    /\ pc = "drop_tmp_copy"
    /\ tmp_copy' = NoTable
    /\ pc' = "drop_tmp_final"
    /\ UNCHANGED <<catalogVars, dest, file, file_source, run, columns, id_columns,
                   foreign_columns, tmp_final, stats, error, dest_before, inserted,
                   updated, first_stats, graphVars, importVars, dependentVars, configVars>>

\* pg_upsert returning after the second DROP TABLE, the destination not analyzed.
DropTmpFinalAndReturn ==
    /\ pc = "drop_tmp_final"
    /\ tmp_final' = NoTable
    /\ pc' = "done"
    /\ UNCHANGED <<catalogVars, dest, file, file_source, run, columns, id_columns,
                   foreign_columns, tmp_copy, stats, error, dest_before, inserted,
                   updated, first_stats, graphVars, importVars, dependentVars, configVars>>

\* lines 191-192: DROP TABLE _tmp_final.
DropTmpFinal ==
    /\ pc = "drop_tmp_final"
    /\ tmp_final' = NoTable
    /\ pc' = "analyze_dest"
    /\ UNCHANGED <<catalogVars, dest, file, file_source, run, columns, id_columns,
                   foreign_columns, tmp_copy, stats, error, dest_before, inserted,
                   updated, first_stats, graphVars, importVars, dependentVars, configVars>>

\* lines 194-198: ANALYZE the destination and return the stats.
AnalyzeDest ==
    /\ pc = "analyze_dest"
    /\ pc' = "done"
    /\ first_stats' = IF run = 1 THEN stats ELSE first_stats
    /\ UNCHANGED <<catalogVars, dest, file, file_source, run, columns, id_columns,
                   foreign_columns, tmp_copy, tmp_final, stats, error, dest_before,
                   inserted, updated, graphVars, importVars, dependentVars, configVars>>

pg_upsert ==
    \/ CheckParameters \/ CreateTmpCopy \/ CopyFile \/ AnalyzeTmpCopy \/ CreateTmpFinal
    \/ CreateIndex \/ DeleteIdentical \/ InsertMissing \/ DeleteInserted \/ UpdateRows
    \/ DropTmpCopy \/ DropTmpFinal \/ AnalyzeDest

(***************************************************************************)
(* The inputs: catalogs, configurations, table contents and files.         *)
(***************************************************************************)
SeqsUpTo(S, n) == UNION {[1..k -> S] : k \in 0..n}

TheTableRows == [id : IdValues, code : CodeValues, ref : RefValues]
OtherRows == [id : IdValues, code : CodeValues]

\* Table contents are taken in one physical order: ascending on every column.
Ascending(rows, cols) ==
    \A i, j \in DOMAIN rows : i < j => ~RowLess(rows[j], rows[i], cols)

OtherContents ==
    {rows \in SeqsUpTo(OtherRows, Cardinality(IdValues)) :
        /\ Ascending(rows, TableColumns("other"))
        /\ \A i, j \in DOMAIN rows : i < j => rows[i]["id"] # rows[j]["id"]}

DestContents(other_rows) ==
    {rows \in SeqsUpTo(TheTableRows, MaxDestRows) :
        /\ Ascending(rows, TableColumns("the_table"))
        /\ ~ViolatesConstraints(rows, other_rows)}

\* The data rows of a file: a value for each of the three columns of its header.
\* Files are taken with their rows in ascending order: the merge reads the order
\* of the rows only to append the inserted rows in that order.
FileContents ==
    {rows \in SeqsUpTo(IdValues \X CodeValues \X RefValues, MaxFileRows) :
        Ascending(rows, <<1, 2, 3>>)}

TableConfigs == {EmptyConfig, [alternate_key |-> <<"code">>]}

ImportIdle ==
    /\ dest_tables = <<>>
    /\ suspend_foreign_keys = FALSE
    /\ fail_on_warning = TRUE
    /\ table_catalog = <<>>
    /\ import_pairs = <<>>
    /\ next_pair = 1
    /\ merged = <<>>
    /\ error_tables = <<>>
    /\ skipped_files = <<>>
    /\ session_replication_role = "DEFAULT"
    /\ commits = 0
    /\ raised = "none"
    /\ expected_dest_tables_count = 0
    /\ expected_import_files_count = 0
    /\ success_tables = 0
    /\ success_files = 0
    /\ ipc = "idle"

DependentsIdle ==
    /\ seeds = {}
    /\ dependent_tables = {}
    /\ next_seed = 1
    /\ dfs_stack = <<>>
    /\ visited = {}
    /\ dependency_tree = {}
    /\ dpc = "idle"

ConfigIdle ==
    /\ tables_config = <<>>
    /\ subset_names = {}
    /\ next_entry = 1
    /\ config_error = "none"
    /\ config_per_subset = <<>>
    /\ file_configs = <<>>
    /\ cpc = "idle"

GraphIdle ==
    /\ table_graph = {}
    /\ graph_tables = {}
    /\ simple_cycles = <<>>
    /\ edges_removed = <<>>
    /\ insertion_order = <<>>
    /\ copy_of_graph = {}
    /\ topological_order = <<>>
    /\ graph_error = "none"
    /\ gpc = "idle"

MergeIdle ==
    /\ file = <<>>
    /\ file_source = "none"
    /\ pc = "start"
    /\ run = 1
    /\ columns = <<>>
    /\ id_columns = <<>>
    /\ foreign_columns = <<>>
    /\ tmp_copy = NoTable
    /\ tmp_final = NoTable
    /\ stats = NoStats
    /\ error = "none"
    /\ dest_before = <<>>
    /\ inserted = <<>>
    /\ updated = {}
    /\ first_stats = NoStats

\* Merging any file: the_table with or without primary key, unique constraint
\* and alternate_key; its foreign key is imported as it is.
Init ==
    /\ pk_columns \in {<<>>, <<"id">>}
    /\ unique_constraints \in {<<>>, << <<"code">> >>}
    /\ table_fks = TheTableFks
    /\ \E cfg \in TableConfigs : config_per_table = [the_table |-> cfg, other |-> EmptyConfig]
    /\ other = << [id |-> 1, code |-> 1] >>
    /\ dest \in DestContents(other)
    /\ MergeIdle
    /\ GraphIdle
    /\ ImportIdle
    /\ DependentsIdle
    /\ ConfigIdle

\* Export and import again: the_table with a primary key, other with or without
\* alternate_key and with any contents.
InitRoundTrip ==
    /\ pk_columns = <<"id">>
    /\ unique_constraints = <<>>
    /\ table_fks = TheTableFks
    /\ \E cfg \in TableConfigs : config_per_table = [the_table |-> EmptyConfig, other |-> cfg]
    /\ other \in OtherContents
    /\ dest \in DestContents(other)
    /\ MergeIdle
    /\ GraphIdle
    /\ ImportIdle
    /\ DependentsIdle
    /\ ConfigIdle

\* The user supplies a file for the_table.
WriteFile ==
    /\ pc = "start"
    /\ file' \in FileContents
    /\ file_source' = "user"
    /\ pc' = "queued"
    /\ UNCHANGED <<catalogVars, dest, run, columns, id_columns, foreign_columns,
                   tmp_copy, tmp_final, stats, error, dest_before, inserted, updated,
                   first_stats, graphVars, importVars, dependentVars, configVars>>

\* export_tables_per_config writes the file of the_table.
Export ==
    /\ pc = "start"
    /\ file' = export_tables_per_config
    /\ file_source' = "export"
    /\ pc' = "queued"
    /\ UNCHANGED <<catalogVars, dest, run, columns, id_columns, foreign_columns,
                   tmp_copy, tmp_final, stats, error, dest_before, inserted, updated,
                   first_stats, graphVars, importVars, dependentVars, configVars>>

\* The same file is merged a second time, nothing else having changed.
MergeAgain ==
    /\ pc = "done"
    /\ run = 1
    /\ run' = 2
    /\ pc' = "queued"
    /\ UNCHANGED <<catalogVars, dest, file, file_source, columns, id_columns,
                   foreign_columns, tmp_copy, tmp_final, stats, error, dest_before,
                   inserted, updated, first_stats, graphVars, importVars, dependentVars, configVars>>

Next == WriteFile \/ pg_upsert

Spec == Init /\ [][Next]_vars

NextTwice == WriteFile \/ pg_upsert \/ MergeAgain

SpecTwice == Init /\ [][NextTwice]_vars

NextRoundTrip == Export \/ pg_upsert

SpecRoundTrip == InitRoundTrip /\ [][NextRoundTrip]_vars

(***************************************************************************)
(* A file whose parameters pg_upsert rejects, followed by a later file for *)
(* the same table (another file_config: a subset file, or a later call).   *)
(***************************************************************************)
\* The exception the checks of lines 128-137 raise for the current file_config.
PreconditionError ==
    IF NoIdentifier(IdColumns) THEN "UnsupportedSchema"
    ELSE IF Range(ConfiguredColumns) \ Range(TableColumns("the_table")) # {}
    THEN "InputParameters"
    ELSE IF Range(IdColumns) \ Range(ConfiguredColumns) # {} THEN "InputParameters"
    ELSE "none"

\* A catalog and a file_config under which one of the three checks fails.
RejectedFiles ==
    { [pk |-> <<>>, unique |-> <<>>, config |-> EmptyConfig],
      [pk |-> <<"id">>, unique |-> <<>>, config |-> [columns |-> <<"id", "code", "zip">>]],
      [pk |-> <<"id">>, unique |-> <<>>, config |-> [columns |-> <<"code", "ref">>]] }

InitLaterFile ==
    /\ \E rejected \in RejectedFiles :
           /\ pk_columns = rejected.pk
           /\ unique_constraints = rejected.unique
           /\ config_per_table = [the_table |-> rejected.config, other |-> EmptyConfig]
    /\ table_fks = TheTableFks
    /\ other = << [id |-> 1, code |-> 1] >>
    /\ dest \in DestContents(other)
    /\ MergeIdle
    /\ GraphIdle
    /\ ImportIdle
    /\ DependentsIdle
    /\ ConfigIdle

\* After pg_upsert raised on its parameters, it is called for a later file of
\* the same table, with that file's file_config.
LaterFile ==
    /\ pc = "failed"
    /\ error \in {"UnsupportedSchema", "InputParameters"}
    /\ run = 1
    /\ run' = 2
    /\ \E cfg \in TableConfigs :
           config_per_table' = [config_per_table EXCEPT !["the_table"] = cfg]
    /\ pc' = "queued"
    /\ UNCHANGED <<pk_columns, unique_constraints, table_fks, other, dest, file, file_source, columns,
                   id_columns, foreign_columns, tmp_copy, tmp_final, stats, error,
                   dest_before, inserted, updated, first_stats, graphVars, importVars,
                   dependentVars, configVars>>

NextLaterFile == WriteFile \/ pg_upsert \/ LaterFile

SpecLaterFile == InitLaterFile /\ [][NextLaterFile]_vars

(***************************************************************************)
(* Properties of pg_upsert.                                                *)
(***************************************************************************)
\* pg_upsert has returned its stats.
Returned == pc = "done"

\* A data row of a file that holds the table's own columns, as a row.
FileRow(tuple) == [id |-> tuple[1], code |-> tuple[2], ref |-> tuple[3]]

FileRows == [i \in DOMAIN file |-> FileRow(file[i])]

AlternateKeyConfigured == "alternate_key" \in DOMAIN config_per_table["the_table"]

\* Two rows have the same values, NULL included, in the given columns.
SameOn(r1, r2, cols) == \A c \in cols : r1[c] = r2[c]

\* Two rows have equal, non-NULL values in the given columns.
EqualOn(r1, r2, cols) == \A c \in cols : r1[c] # NULL /\ r1[c] = r2[c]

\* C1: whenever pg_upsert returns, skip + insert + update = total, and total is
\* the number of data rows of the file.
C1_StatsAddUp ==
    Returned => /\ stats.total = Len(file)
                /\ stats.skip + stats.insert + stats.update = stats.total

\* C2: the second of two successive merges of the same file reports no insert
\* and no update.
C2_Idempotent ==
    (Returned /\ run = 2) => (stats.insert = 0 /\ stats.update = 0)

\* C3: merging an exported file into the unchanged database reports insert = 0,
\* update = 0 and skip = the number of exported rows.
C3_RoundTrip ==
    (Returned /\ file_source = "export") =>
        (stats.insert = 0 /\ stats.update = 0 /\ stats.skip = Len(file))

\* C4: after pg_upsert has returned, every data row of the file is a row of the
\* destination: some row has its values in every configured column.
C4_DestAgreesWithFile ==
    Returned => \A i \in DOMAIN file : \E k \in DOMAIN dest :
                    SameOn(dest[k], FileRows[i], Range(columns))

\* The classification of the file's rows against the destination as it was, rows
\* being matched on the id columns NULL-safely (nullsafe) or as SQL's = does.
Matches(r1, r2, nullsafe) ==
    IF nullsafe THEN SameOn(r1, r2, Range(id_columns))
    ELSE EqualOn(r1, r2, Range(id_columns))

IdenticalFileRows ==
    LET rows == FileRows
    IN {i \in DOMAIN file : \E k \in DOMAIN dest_before :
           SameOn(dest_before[k], rows[i], Range(columns))}

MissingFileRows(nullsafe) ==
    {i \in DOMAIN file : ~\E k \in DOMAIN dest_before :
        Matches(dest_before[k], FileRows[i], nullsafe)}

DifferingFileRows(nullsafe) ==
    {i \in DOMAIN file : \E k \in DOMAIN dest_before :
        /\ Matches(dest_before[k], FileRows[i], nullsafe)
        /\ ~SameOn(dest_before[k], FileRows[i], Range(columns) \ Range(id_columns))}

CountsClassify(nullsafe) ==
    /\ stats.skip = Cardinality(IdenticalFileRows)
    /\ stats.insert = Cardinality(MissingFileRows(nullsafe))
    /\ stats.update = Cardinality(DifferingFileRows(nullsafe))

\* C5: the counts pg_upsert returns are the numbers of file rows that are
\* identical to a destination row (skip), that match no destination row on the
\* identifier (insert), and that match a destination row differing in a
\* non-identifier column (update), under either reading of "match".
C5_CountsClassifyRows ==
    Returned => (CountsClassify(TRUE) \/ CountsClassify(FALSE))

\* C6: a merge never removes a row of the destination, and a destination row
\* that no row of the file equals on the identifier columns keeps its values.
C6_Additive ==
    /\ Len(dest) >= Len(dest_before)
    /\ \A k \in DOMAIN dest_before :
           dest[k] # dest_before[k] =>
               \E i \in DOMAIN file : EqualOn(dest_before[k], FileRows[i], Range(id_columns))

\* The merge has inserted rows and kept a destination row no file row matches.
C6_Witness ==
    /\ Returned
    /\ stats.insert > 0
    /\ \E k \in DOMAIN dest_before :
           /\ ~\E i \in DOMAIN file : SameOn(dest_before[k], FileRows[i], Range(id_columns))
           /\ dest[k] = dest_before[k]

AfterCheck == pc \notin {"start", "queued"}
AfterInsert == pc \in {"delete_inserted", "update", "drop_tmp_copy", "drop_tmp_final",
                       "analyze_dest", "done"}
AfterUpdate == pc \in {"drop_tmp_copy", "drop_tmp_final", "analyze_dest", "done"}

\* The diff, insert and update steps identify rows by the columns ids: the id
\* columns in use are ids, the inserted rows are the file rows that are not
\* identical to a destination row and equal none on ids, and the updated rows are
\* the destination rows that a file row left after the diff equals on ids.
IdentityIs(ids) ==
    LET rows == FileRows
        identical == IdenticalFileRows
        matched(i) == \E k \in DOMAIN dest_before :
                          EqualOn(dest_before[k], rows[i], Range(ids))
    IN /\ AfterCheck => id_columns = ids
       /\ AfterInsert =>
              \A i \in DOMAIN file :
                  (\E j \in DOMAIN inserted : inserted[j] = rows[i])
                      <=> (i \notin identical /\ ~matched(i))
       /\ AfterUpdate =>
              updated = {k \in DOMAIN dest_before : \E i \in DOMAIN file :
                            /\ i \notin identical
                            /\ EqualOn(dest_before[k], rows[i], Range(ids))}

\* C7 as stated: the identifier is the primary key unless an alternate_key is
\* configured, and then the alternate key.
C7_IdentityPkOrAlternateKey ==
    IdentityIs(IF AlternateKeyConfigured
               THEN config_per_table["the_table"]["alternate_key"] ELSE pk_columns)

\* C7 amended: the identifier is the primary-key columns followed by the columns
\* of every unique constraint unless an alternate_key is configured, and then
\* strictly the alternate key.
C7_IdentityPkAndUniqueOrAlternateKey ==
    IdentityIs(IF AlternateKeyConfigured
               THEN config_per_table["the_table"]["alternate_key"]
               ELSE pk_columns \o Flatten(unique_constraints))

\* A table with primary key and unique constraint and no alternate_key was
\* merged into, rows being updated.
C7_Witness ==
    /\ Returned
    /\ ~AlternateKeyConfigured
    /\ pk_columns # <<>>
    /\ unique_constraints # <<>>
    /\ stats.update > 0

\* C8: with an alternate key, a file row whose alternate-key columns equal those
\* of a destination row, NULL counting as equal to NULL, is never inserted.
C8_NullSafeAlternateKey ==
    (AfterInsert /\ AlternateKeyConfigured) =>
        \A j \in DOMAIN inserted : ~\E k \in DOMAIN dest_before :
            SameOn(dest_before[k], inserted[j],
                   Range(config_per_table["the_table"]["alternate_key"]))

\* C9 as stated: without primary key and alternate_key, pg_upsert raises
\* UnsupportedSchema.
C9_NoPrimaryKeyRaises ==
    (AfterCheck /\ pk_columns = <<>> /\ ~AlternateKeyConfigured)
        => (pc = "failed" /\ error = "UnsupportedSchema")

\* C9 amended: without primary key, unique constraint and alternate_key,
\* pg_upsert raises UnsupportedSchema.
C9_NoIdentifierRaises ==
    (AfterCheck /\ pk_columns = <<>> /\ unique_constraints = <<>>
        /\ ~AlternateKeyConfigured)
        => (pc = "failed" /\ error = "UnsupportedSchema")

\* pg_upsert raised UnsupportedSchema for a file with rows.
C9_Witness ==
    /\ pc = "failed"
    /\ error = "UnsupportedSchema"
    /\ pk_columns = <<>> /\ unique_constraints = <<>> /\ ~AlternateKeyConfigured
    /\ file # <<>>

(***************************************************************************)
(* The dependency graph (pgmerge/db_graph.py).  Tables are named by the    *)
(* numbers 1..MaxTables, whose order is the order of the names; an edge    *)
(* <<a, b>> is a foreign key of table a into table b.                      *)
(***************************************************************************)
Tables == 1..MaxTables

\* build_fk_dependency_graph: a node per table, an edge per foreign key between
\* two of the tables.
Graphs == SUBSET (Tables \X Tables)

SetMin(S) == CHOOSE x \in S : \A y \in S : x <= y

\* A list of distinct tables, each simple cycle being listed once, from its
\* smallest table.
CyclePaths ==
    {p \in UNION {[1..n -> Tables] : n \in 1..MaxTables} :
        /\ \A i, j \in DOMAIN p : i # j => p[i] # p[j]
        /\ p[1] = SetMin(Range(p))}

\* nx.simple_cycles(graph): the elementary circuits of the graph, self-loops
\* included.
nx_simple_cycles(graph) ==
    {p \in CyclePaths :
        \A i \in DOMAIN p : <<p[i], p[(i % Len(p)) + 1]>> \in graph}

\* list.sort() of a list of distinct tables.
RECURSIVE SortAsc(_)
SortAsc(S) ==
    IF S = {} THEN <<>>
    ELSE LET m == SetMin(S) IN <<m>> \o SortAsc(S \ {m})

\* Python's order of lists: l1 <= l2.
RECURSIVE ListLeq(_, _)
ListLeq(l1, l2) ==
    IF l1 = <<>> THEN TRUE
    ELSE IF l2 = <<>> THEN FALSE
    ELSE IF Head(l1) # Head(l2) THEN Head(l1) < Head(l2)
    ELSE ListLeq(Tail(l1), Tail(l2))

\* cycle.sort() for each cycle, then simple_cycles.sort(): two cycles through
\* the same tables give two equal entries.
RECURSIVE SortCycles(_)
SortCycles(cycles) ==
    IF cycles = {} THEN <<>>
    ELSE LET first == CHOOSE c \in cycles : \A d \in cycles :
                          ListLeq(SortAsc(Range(c)), SortAsc(Range(d)))
         IN <<SortAsc(Range(first))>> \o SortCycles(cycles \ {first})

\* get_insertion_order is called with the graph of the tables.
GetInsertionOrder ==
    /\ gpc = "start"
    /\ copy_of_graph' = table_graph
    /\ gpc' = "break_cycles"
    /\ UNCHANGED <<mergeVars, importVars, dependentVars, configVars,
                   table_graph, graph_tables, simple_cycles, edges_removed,
                   insertion_order, topological_order, graph_error>>

\* break_cycles up to its second loop: the cycles, sorted.
FindCycles ==
    /\ gpc = "break_cycles"
    /\ simple_cycles' = SortCycles(nx_simple_cycles(copy_of_graph))
    /\ edges_removed' = <<>>
    /\ gpc' = "remove_edge"
    /\ UNCHANGED <<mergeVars, importVars, dependentVars, configVars,
                   table_graph, graph_tables, insertion_order, copy_of_graph,
                   topological_order, graph_error>>

\* One iteration of break_cycles' second loop.  Graph.remove_edge raises
\* NetworkXError for an edge that is not in the graph.
RemoveEdge ==
    /\ gpc = "remove_edge"
    /\ simple_cycles # <<>>
    /\ LET cycle == Head(simple_cycles)
           edge == <<cycle[1], cycle[Len(cycle)]>>
       IN IF edge \in copy_of_graph
          THEN /\ copy_of_graph' = copy_of_graph \ {edge}
               /\ edges_removed' = Append(edges_removed, edge)
               /\ simple_cycles' = Tail(simple_cycles)
               /\ UNCHANGED <<gpc, graph_error>>
          ELSE /\ gpc' = "failed"
               /\ graph_error' = "NetworkXError"
               /\ UNCHANGED <<copy_of_graph, edges_removed, simple_cycles>>
    /\ UNCHANGED <<mergeVars, importVars, dependentVars, configVars,
                   table_graph, graph_tables, insertion_order,
                   topological_order>>

\* break_cycles returns; nx.topological_sort starts.
CyclesBroken ==
    /\ gpc = "remove_edge"
    /\ simple_cycles = <<>>
    /\ topological_order' = <<>>
    /\ gpc' = "topological_sort"
    /\ UNCHANGED <<mergeVars, importVars, dependentVars, configVars,
                   table_graph, graph_tables, simple_cycles, edges_removed,
                   insertion_order, copy_of_graph, graph_error>>

\* The nodes nx.topological_sort can yield next: those all of whose
\* predecessors have been yielded.
ZeroIndegree ==
    {t \in graph_tables \ Range(topological_order) :
        \A e \in copy_of_graph : e[2] = t => e[1] \in Range(topological_order)}

\* nx.topological_sort yields a node; it raises NetworkXUnfeasible when nodes
\* are left and each has a predecessor left, i.e. the graph has a cycle.
TopologicalSort ==
    /\ gpc = "topological_sort"
    /\ Range(topological_order) # graph_tables
    /\ IF ZeroIndegree = {}
       THEN /\ gpc' = "failed"
            /\ graph_error' = "NetworkXUnfeasible"
            /\ UNCHANGED topological_order
       ELSE /\ \E t \in ZeroIndegree : topological_order' = Append(topological_order, t)
            /\ UNCHANGED <<gpc, graph_error>>
    /\ UNCHANGED <<mergeVars, importVars, dependentVars, configVars,
                   table_graph, graph_tables, simple_cycles, edges_removed,
                   insertion_order, copy_of_graph>>

\* list(reversed(...))
Reversed(s) == [i \in DOMAIN s |-> s[Len(s) + 1 - i]]

\* get_insertion_order returns the reversed topological order.
ReturnInsertionOrder ==
    /\ gpc = "topological_sort"
    /\ Range(topological_order) = graph_tables
    /\ insertion_order' = Reversed(topological_order)
    /\ gpc' = "done"
    /\ UNCHANGED <<mergeVars, importVars, dependentVars, configVars,
                   table_graph, graph_tables, simple_cycles, edges_removed,
                   copy_of_graph, topological_order, graph_error>>

get_insertion_order ==
    \/ GetInsertionOrder
    \/ FindCycles
    \/ RemoveEdge
    \/ CyclesBroken
    \/ TopologicalSort
    \/ ReturnInsertionOrder

\* Any graph of foreign keys between the tables.
InitGraph ==
    /\ pk_columns = <<"id">>
    /\ unique_constraints = <<>>
    /\ table_fks = TheTableFks
    /\ config_per_table = [t \in {"the_table", "other"} |-> EmptyConfig]
    /\ other = <<>>
    /\ dest = <<>>
    /\ MergeIdle
    /\ table_graph \in Graphs
    /\ graph_tables = Tables
    /\ simple_cycles = <<>>
    /\ edges_removed = <<>>
    /\ insertion_order = <<>>
    /\ copy_of_graph = {}
    /\ topological_order = <<>>
    /\ graph_error = "none"
    /\ gpc = "start"
    /\ ImportIdle
    /\ DependentsIdle
    /\ ConfigIdle

NextGraph == get_insertion_order

SpecGraph == InitGraph /\ [][NextGraph]_vars

\* C10: get_insertion_order returns, for any graph, a list holding every table
\* once in which, for every edge A -> B left after cycle-breaking, B comes
\* before A.
C10_InsertionOrder ==
    /\ gpc # "failed"
    /\ gpc = "done" =>
           /\ Len(insertion_order) = Cardinality(graph_tables)
           /\ Range(insertion_order) = graph_tables
           /\ \A e \in copy_of_graph :
                  IndexOf(insertion_order, e[2]) < IndexOf(insertion_order, e[1])

(***************************************************************************)
(* import_all_new (pgmerge/pgmerge.py): the merge of the files of one run, *)
(* one file per table, inside one transaction.  The schema holds the       *)
(* tables 1..MaxTables with the foreign keys of table_graph; a file may    *)
(* also name a table the schema does not hold.                             *)
(***************************************************************************)
MaxForeignKeys == 3

UnknownTable == MaxTables + 1

\* A table pg_upsert can merge into, a table without primary key, unique
\* constraint and alternate_key, and a table whose configured columns leave out
\* its id column.
GoodCatalog == [id_columns |-> <<"id">>, columns |-> <<"id", "code">>]
NoIdCatalog == [id_columns |-> <<>>, columns |-> <<"id", "code">>]
BadColumnsCatalog == [id_columns |-> <<"id">>, columns |-> <<"code">>]

\* The exception the parameter checks of pg_upsert raise for a table.
PgUpsertRaises(table) ==
    LET all_columns == {"id", "code"}
        cat == table_catalog[table]
    IN IF NoIdentifier(cat.id_columns) THEN "UnsupportedSchema"
       ELSE IF Range(cat.columns) \ all_columns # {} THEN "InputParameters"
       ELSE IF Range(cat.id_columns) \ Range(cat.columns) # {} THEN "InputParameters"
       ELSE "none"

\* Cycles of several tables only, self-references left out.
find_cycles_of_several_tables(graph, tables) ==
    \E c \in nx_simple_cycles(graph) : Len(c) > 1 /\ Range(c) \subseteq Range(tables)

\* find_and_warn_about_cycles
find_and_warn_about_cycles(graph, tables) ==
    LET cycles == nx_simple_cycles(graph)
        relevant_cycles == {c \in cycles : Len(c) > 1 /\ Range(c) \subseteq Range(tables)}
        relevant_tables == {c[1] : c \in {d \in cycles : Len(d) = 1 /\ d[1] \in Range(tables)}}
    IN relevant_cycles # {} \/ relevant_tables # {}

\* The pairs left in the order of the file names.
SortPairsOmitted(pairs, order) == pairs

\* import_pairs.sort(key=lambda pair: insertion_order.index(pair[1])): a stable
\* sort.
RECURSIVE SortPairs(_, _)
SortPairs(pairs, order) ==
    IF pairs = <<>> THEN <<>>
    ELSE LET first == CHOOSE i \in DOMAIN pairs :
                          \A j \in DOMAIN pairs :
                              \/ IndexOf(order, pairs[i]) < IndexOf(order, pairs[j])
                              \/ IndexOf(order, pairs[i]) = IndexOf(order, pairs[j]) /\ i <= j
         IN <<pairs[first]>> \o SortPairs(RemoveAt(pairs, first), order)

\* The elements of s that satisfy Keep, in order.
RECURSIVE SelectTables(_, _)
SelectTables(s, keep) ==
    IF s = <<>> THEN <<>>
    ELSE (IF Head(s) \in keep THEN <<Head(s)>> ELSE <<>>) \o SelectTables(Tail(s), keep)

\* Lines 163-190: the files of unknown tables are skipped, the graph is built
\* and get_insertion_order is called.
ImportAllNew ==
    /\ ipc = "start"
    /\ expected_dest_tables_count' = Cardinality(Range(dest_tables))
    /\ expected_import_files_count' = Len(dest_tables)
    /\ skipped_files' = SelectTables(dest_tables, {UnknownTable})
    /\ dest_tables' = SelectTables(dest_tables, Tables)
    /\ gpc' = "start"
    /\ ipc' = "insertion_order"
    /\ UNCHANGED <<mergeVars, dependentVars, configVars, table_graph, graph_tables,
                   simple_cycles, edges_removed, insertion_order, copy_of_graph,
                   topological_order, graph_error, suspend_foreign_keys, fail_on_warning,
                   table_catalog, import_pairs, next_pair, merged, error_tables,
                   session_replication_role, commits, raised, success_tables, success_files>>

importUnchanged == <<mergeVars, graphVars, dependentVars, configVars, suspend_foreign_keys,
                     fail_on_warning, table_catalog, expected_dest_tables_count,
                     expected_import_files_count>>

\* get_insertion_order raised: the exception leaves import_all_new.
InsertionOrderRaised ==
    /\ ipc = "insertion_order"
    /\ gpc = "failed"
    /\ raised' = graph_error
    /\ ipc' = "raised"
    /\ UNCHANGED <<importUnchanged, success_tables, success_files, dest_tables, import_pairs, next_pair, merged,
                   error_tables, skipped_files, session_replication_role, commits>>

\* Lines 191-195: the pairs are sorted by insertion order.
SortImportPairs ==
    /\ ipc = "insertion_order"
    /\ gpc = "done"
    /\ import_pairs' = SortPairs(dest_tables, insertion_order)
    /\ error_tables' = skipped_files
    /\ ipc' = "foreign_keys"
    /\ UNCHANGED <<importUnchanged, success_tables, success_files, dest_tables, next_pair, merged, skipped_files,
                   session_replication_role, commits, raised>>

\* Lines 197-201: foreign keys are disabled, or the import is cancelled for
\* the cycles found.
ForeignKeys ==
    /\ ipc = "foreign_keys"
    /\ IF suspend_foreign_keys
       THEN /\ session_replication_role' = "REPLICA"
            /\ ipc' = "merge"
       ELSE /\ UNCHANGED session_replication_role
            /\ ipc' = IF find_and_warn_about_cycles(table_graph, dest_tables) /\ fail_on_warning
                      THEN "cancelled" ELSE "merge"
    /\ UNCHANGED <<importUnchanged, success_tables, success_files, dest_tables, import_pairs, next_pair, merged,
                   error_tables, skipped_files, commits, raised>>

\* No exception of pg_upsert is caught.
CaughtNever(exc) == FALSE

\* Every exception of pg_upsert is caught.
CaughtAlways(exc) == TRUE

\* Line 220: except db_import.UnsupportedSchemaException
Caught(exc) == exc = "UnsupportedSchema"

\* The ways a call of pg_upsert for the table can end: with the exception of
\* its parameter checks, or else with the stats of the merge or with the
\* exception of a failed SQL statement.
PgUpsertOutcomes(table) ==
    IF PgUpsertRaises(table) = "none" THEN {"none", "SqlError"}
    ELSE {PgUpsertRaises(table)}

\* Lines 204-234, one iteration: pg_upsert merges the file of the pair.
\* UnsupportedSchemaException is caught; any other exception, that of a failed
\* SQL statement included, leaves import_all_new.
MergeFile ==
    /\ ipc = "merge"
    /\ next_pair <= Len(import_pairs)
    /\ LET table == import_pairs[next_pair]
       IN \E exc \in PgUpsertOutcomes(table) :
              IF exc = "none"
              THEN /\ merged' = Append(merged, table)
                   /\ next_pair' = next_pair + 1
                   /\ UNCHANGED <<error_tables, skipped_files, raised, ipc>>
              ELSE IF Caught(exc)
              THEN /\ error_tables' = Append(error_tables, table)
                   /\ skipped_files' = Append(skipped_files, table)
                   /\ next_pair' = next_pair + 1
                   /\ UNCHANGED <<merged, raised, ipc>>
              ELSE /\ raised' = exc
                   /\ ipc' = "raised"
                   /\ UNCHANGED <<merged, error_tables, skipped_files, next_pair>>
    /\ UNCHANGED <<importUnchanged, success_tables, success_files, dest_tables, import_pairs, session_replication_role,
                   commits>>

\* The loop over the files is left without foreign keys being enabled again.
ForeignKeysLeftDisabled ==
    /\ ipc = "merge"
    /\ next_pair > Len(import_pairs)
    /\ ipc' = "commit"
    /\ UNCHANGED <<importUnchanged, success_tables, success_files, dest_tables, import_pairs, next_pair, merged,
                   error_tables, skipped_files, commits, raised, session_replication_role>>

\* Lines 236-237: after the last file, enable_foreign_key_constraints if
\* foreign keys were suspended.
EnableForeignKeys ==
    /\ ipc = "merge"
    /\ next_pair > Len(import_pairs)
    /\ session_replication_role' =
           IF suspend_foreign_keys THEN "DEFAULT" ELSE session_replication_role
    /\ ipc' = "commit"
    /\ UNCHANGED <<importUnchanged, success_tables, success_files, dest_tables, import_pairs, next_pair, merged,
                   error_tables, skipped_files, commits, raised>>

\* A commit after each file instead of one at the end of the run.
CommitPerFile ==
    /\ ipc \in {"merge", "commit"}
    /\ commits < MaxTables
    /\ commits' = commits + 1
    /\ ipc' = IF ipc = "commit" THEN "done" ELSE ipc
    /\ UNCHANGED <<importUnchanged, success_tables, success_files, dest_tables, import_pairs, next_pair, merged,
                   error_tables, skipped_files, session_replication_role, raised>>

\* Lines 239-252: the summary is printed and the transaction is committed.
Commit ==
    /\ ipc = "commit"
    /\ success_tables' = expected_dest_tables_count - Len(error_tables)
    /\ success_files' = expected_import_files_count - Len(skipped_files)
    /\ commits' = commits + 1
    /\ ipc' = "done"
    /\ UNCHANGED <<importUnchanged, dest_tables, import_pairs, next_pair, merged,
                   error_tables, skipped_files, session_replication_role, raised>>

import_all_new ==
    \/ ImportAllNew
    \/ InsertionOrderRaised
    \/ SortImportPairs
    \/ ForeignKeys
    \/ MergeFile
    \/ EnableForeignKeys
    \/ Commit

\* The tables of the files of a run, in the order of the file names: files for
\* the first tables of the schema, or for all and for a table it does not hold,
\* or two files for the first table (a subset, or a --single-table import).
ImportFiles ==
    {SortAsc(1..n) : n \in {1, MaxTables - 1, MaxTables}}
    \cup {SortAsc(Tables \cup {UnknownTable})}
    \cup {<<1, 1>> \o SortAsc(2..(MaxTables - 1))}

\* The files and options of a run: files for all the tables of the schema
\* under each choice of options, other files under the default options.
ImportRuns ==
    {[files |-> SortAsc(Tables), suspend_foreign_keys |-> o[1], fail_on_warning |-> o[2]] :
        o \in {<<TRUE, TRUE>>, <<FALSE, TRUE>>, <<FALSE, FALSE>>}}
    \cup
    {[files |-> f, suspend_foreign_keys |-> FALSE, fail_on_warning |-> TRUE] :
        f \in ImportFiles}

\* The schemas of a run: any foreign keys between good tables, or tables
\* without foreign keys one of which is not a good one.
ImportSchemas ==
    {[graph |-> g, catalog |-> [t \in Tables |-> GoodCatalog]] :
        g \in {h \in Graphs : Cardinality(h) <= MaxForeignKeys}}
    \cup
    {[graph |-> {}, catalog |-> cat] :
        cat \in {c \in [Tables -> {GoodCatalog, NoIdCatalog, BadColumnsCatalog}] :
                    Cardinality({t \in Tables : c[t] # GoodCatalog}) = 1}}

InitImport ==
    /\ pk_columns = <<"id">>
    /\ unique_constraints = <<>>
    /\ table_fks = TheTableFks
    /\ config_per_table = [t \in {"the_table", "other"} |-> EmptyConfig]
    /\ other = <<>>
    /\ dest = <<>>
    /\ MergeIdle
    /\ \E schema \in ImportSchemas :
           /\ table_graph = schema.graph
           /\ table_catalog = schema.catalog
    /\ graph_tables = Tables
    /\ simple_cycles = <<>>
    /\ edges_removed = <<>>
    /\ insertion_order = <<>>
    /\ copy_of_graph = {}
    /\ topological_order = <<>>
    /\ graph_error = "none"
    /\ gpc = "idle"
    /\ \E r \in ImportRuns :
           /\ dest_tables = r.files
           /\ suspend_foreign_keys = r.suspend_foreign_keys
           /\ fail_on_warning = r.fail_on_warning
    \* every schema is taken with files for exactly its tables under the
    \* default options, the other runs with the schemas of few foreign keys
    /\ (dest_tables # SortAsc(Tables) \/ suspend_foreign_keys \/ ~fail_on_warning) =>
           2 * Cardinality(table_graph) <= MaxForeignKeys + 1
    /\ import_pairs = <<>>
    /\ next_pair = 1
    /\ merged = <<>>
    /\ error_tables = <<>>
    /\ skipped_files = <<>>
    /\ session_replication_role = "DEFAULT"
    /\ commits = 0
    /\ raised = "none"
    /\ expected_dest_tables_count = 0
    /\ expected_import_files_count = 0
    /\ success_tables = 0
    /\ success_files = 0
    /\ ipc = "start"
    /\ DependentsIdle
    /\ ConfigIdle

NextImport == import_all_new \/ get_insertion_order

SpecImport == InitImport /\ [][NextImport]_vars

-----------------------------------------------------------------------------
\* Claims about import_all_new.

\* C11: the files of a run are merged in insertion order: when a foreign key
\* from table A to another table B is retained after cycle-breaking and both
\* have a file in the run, the file of B comes before the file of A in the
\* sorted pairs, the merges are made in the order of the pairs, and B is never
\* merged after A.
C11_MergedInInsertionOrder ==
    /\ \A i, j \in DOMAIN import_pairs :
           (i # j /\ <<import_pairs[i], import_pairs[j]>> \in copy_of_graph) => j < i
    /\ \A i, j \in DOMAIN merged :
           (i # j /\ <<merged[i], merged[j]>> \in copy_of_graph) => j < i
    /\ merged = SelectTables(SubSeq(import_pairs, 1, next_pair - 1), Range(merged))

\* A run that merged a table after a table it refers to, against the order of
\* the file names.
C11_Witness ==
    /\ ipc = "done"
    /\ \E i, j \in DOMAIN merged :
           /\ j < i
           /\ merged[i] < merged[j]
           /\ <<merged[i], merged[j]>> \in copy_of_graph

\* The tables of the pairs whose iteration of the loop has ended.
Processed == Range(merged) \cup Range(error_tables)

\* C12: a run commits at most once, only after the loop has gone through every
\* pair (each merged or recorded as skipped), and never when a merge failed
\* with an SQL error.
C12_CommitOnceAtEnd ==
    /\ commits <= 1
    /\ commits = 1 =>
           /\ ipc = "done"
           /\ raised = "none"
           /\ next_pair = Len(import_pairs) + 1
           /\ Range(import_pairs) \subseteq Processed
    /\ raised = "SqlError" => commits = 0

\* A run of several files that committed.
C12_Witness ==
    /\ commits = 1
    /\ Len(merged) >= 2

\* The tables that foreign keys of the graph lead to from the tables of from,
\* those tables included.
RECURSIVE ReachableFrom(_, _)
ReachableFrom(graph, from) ==
    LET next == from \cup {e[2] : e \in {f \in graph : f[1] \in from}}
    IN IF next = from THEN from ELSE ReachableFrom(graph, next)

\* The import tables hold a cycle: a table of the import refers to itself, or
\* foreign keys between tables of the import lead from a table back to it.
ImportTablesHoldCycle ==
    LET import_tables == Range(dest_tables) \cap Tables
        inside == {e \in table_graph : e[1] \in import_tables /\ e[2] \in import_tables}
    IN \E e \in inside : e[1] \in ReachableFrom(inside, {e[2]})

\* C13: without --disable-foreign-keys and with fail_on_warning, a run whose
\* import tables hold a cycle never reaches the loop over the files: no file
\* is merged and nothing is committed.
C13_CyclesCancelImport ==
    (~suspend_foreign_keys /\ fail_on_warning /\ ImportTablesHoldCycle) =>
        /\ ipc \notin {"merge", "commit", "done"}
        /\ next_pair = 1
        /\ merged = <<>>
        /\ commits = 0

\* A run cancelled for a cycle among its import tables.
C13_Witness ==
    /\ ipc = "cancelled"
    /\ ImportTablesHoldCycle
    /\ Len(import_pairs) >= 2

\* C14: UnsupportedSchemaException never leaves import_all_new: each table
\* that the loop has gone through is recorded in error_tables and
\* skipped_files and not merged when pg_upsert raises UnsupportedSchema for
\* it, and merged otherwise, whether it comes before or after a skipped one;
\* the run that reaches its end has gone through every pair and commits.
C14_UnsupportedSchemaSkipsTable ==
    /\ raised # "UnsupportedSchema"
    /\ \A i \in 1..(next_pair - 1) :
           LET table == import_pairs[i]
           IN IF PgUpsertRaises(table) = "UnsupportedSchema"
              THEN /\ table \in Range(error_tables)
                   /\ table \in Range(skipped_files)
                   /\ table \notin Range(merged)
              ELSE table \in Range(merged)
    /\ ipc = "done" => (next_pair = Len(import_pairs) + 1 /\ commits = 1)

\* A run that skipped a table without identifier, merged a file after it and
\* committed.
C14_Witness ==
    /\ ipc = "done"
    /\ commits = 1
    /\ \E i, j \in DOMAIN import_pairs :
           /\ i < j
           /\ PgUpsertRaises(import_pairs[i]) = "UnsupportedSchema"
           /\ import_pairs[i] \in Range(error_tables)
           /\ import_pairs[j] \in Range(merged)

\* C15: InputParametersException never leaves import_all_new: a table for
\* which pg_upsert raises InputParameters is recorded as skipped and the run
\* continues with the remaining files.
C15_InputParametersSkipsTable ==
    /\ raised # "InputParameters"
    /\ \A i \in 1..(next_pair - 1) :
           PgUpsertRaises(import_pairs[i]) = "InputParameters" =>
               /\ import_pairs[i] \in Range(error_tables)
               /\ import_pairs[i] \notin Range(merged)

\* C16 as stated: an SQL error during the merge of a file never ends the run;
\* the file is counted as an error and the loop goes on to the next file.
C16_SqlErrorSkipsFile ==
    /\ ~(ipc = "raised" /\ raised = "SqlError")
    /\ \A i \in 1..(next_pair - 1) :
           import_pairs[i] \in Range(merged) \cup Range(error_tables)

\* C16 amended: an SQL error during the merge of a file leaves import_all_new:
\* the file is neither merged nor counted in error_tables (its table is there
\* only for the files before it), no file after it is
\* merged and nothing is committed. The tables counted in error_tables are
\* only the unknown ones and those pg_upsert raised UnsupportedSchema for.
C16_SqlErrorEndsRun ==
    /\ raised = "SqlError" =>
           /\ ipc = "raised"
           /\ commits = 0
           /\ next_pair <= Len(import_pairs)
           /\ LET table == {import_pairs[next_pair]}
              IN Len(SelectTables(merged, table)) + Len(SelectTables(error_tables, table))
                     = Len(SelectTables(SubSeq(import_pairs, 1, next_pair - 1), table))
           /\ Len(merged) + Len(error_tables) - Len(SelectTables(error_tables, {UnknownTable}))
                  = next_pair - 1
    /\ \A i \in DOMAIN error_tables :
           \/ error_tables[i] = UnknownTable
           \/ PgUpsertRaises(error_tables[i]) = "UnsupportedSchema"

\* A run that an SQL error ended after a merge and before the last file.
C16_Witness ==
    /\ raised = "SqlError"
    /\ merged # <<>>
    /\ next_pair < Len(import_pairs)

-----------------------------------------------------------------------------
\* get_all_dependent_tables

\* The tables of the tree alone, the table the search started from left out
\* when it has no successor.
TreeTablesOnly(table, tree) ==
    {e[1] : e \in tree} \cup {e[2] : e \in tree}

\* Lines 102-104: the table, the keys and the values of the dependency tree.
TreeTables(table, tree) ==
    {table} \cup {e[1] : e \in tree} \cup {e[2] : e \in tree}

dependentUnchanged == <<mergeVars, graphVars, importVars, configVars, seeds>>

\* Lines 98-99
GetAllDependentTables ==
    /\ dpc = "start"
    /\ dependent_tables' = {}
    /\ next_seed' = 1
    /\ dpc' = "loop"
    /\ UNCHANGED <<dependentUnchanged, dfs_stack, visited, dependency_tree>>

\* Line 101, nx.dfs_successors(table_graph, table): the search starts from the
\* next table of sorted(tables).
DfsSuccessors ==
    /\ dpc = "loop"
    /\ next_seed <= Cardinality(seeds)
    /\ LET table == SortAsc(seeds)[next_seed]
       IN /\ visited' = {table}
          /\ dfs_stack' = <<table>>
    /\ dependency_tree' = {}
    /\ dpc' = "dfs"
    /\ UNCHANGED <<dependentUnchanged, dependent_tables, next_seed>>

\* nx.dfs_edges, one step: the next successor of the table on top of the stack
\* that was not visited yet becomes its child in the tree and is pushed; the
\* table is popped when it has none left. The order of the successors of a
\* table is the order in which the inspector listed its foreign keys.
DfsEdge ==
    /\ dpc = "dfs"
    /\ dfs_stack # <<>>
    /\ LET parent == dfs_stack[Len(dfs_stack)]
           children == {e[2] : e \in {f \in table_graph : f[1] = parent}} \ visited
       IN IF children = {}
          THEN /\ dfs_stack' = SubSeq(dfs_stack, 1, Len(dfs_stack) - 1)
               /\ UNCHANGED <<visited, dependency_tree>>
          ELSE \E child \in children :
                   /\ dependency_tree' = dependency_tree \cup {<<parent, child>>}
                   /\ visited' = visited \cup {child}
                   /\ dfs_stack' = Append(dfs_stack, child)
    /\ UNCHANGED <<dependentUnchanged, dependent_tables, next_seed, dpc>>

\* Lines 102-105: the tables of the tree are added to the result.
AddDependents ==
    /\ dpc = "dfs"
    /\ dfs_stack = <<>>
    /\ dependent_tables' =
           dependent_tables \cup TreeTables(SortAsc(seeds)[next_seed], dependency_tree)
    /\ next_seed' = next_seed + 1
    /\ dpc' = "loop"
    /\ UNCHANGED <<dependentUnchanged, dfs_stack, visited, dependency_tree>>

\* Line 117
ReturnDependentTables ==
    /\ dpc = "loop"
    /\ next_seed > Cardinality(seeds)
    /\ dpc' = "done"
    /\ UNCHANGED <<dependentUnchanged, dependent_tables, next_seed, dfs_stack, visited,
                   dependency_tree>>

get_all_dependent_tables ==
    \/ GetAllDependentTables
    \/ DfsSuccessors
    \/ DfsEdge
    \/ AddDependents
    \/ ReturnDependentTables

\* The graph of any schema with up to MaxForeignKeys foreign keys, and the
\* tables given: one or more tables of the schema (validate_tables).
InitDependents ==
    /\ pk_columns = <<"id">>
    /\ unique_constraints = <<>>
    /\ table_fks = TheTableFks
    /\ config_per_table = [t \in {"the_table", "other"} |-> EmptyConfig]
    /\ other = <<>>
    /\ dest = <<>>
    /\ MergeIdle
    /\ table_graph \in {g \in Graphs : Cardinality(g) <= MaxForeignKeys}
    /\ graph_tables = Tables
    /\ simple_cycles = <<>>
    /\ edges_removed = <<>>
    /\ insertion_order = <<>>
    /\ copy_of_graph = {}
    /\ topological_order = <<>>
    /\ graph_error = "none"
    /\ gpc = "idle"
    /\ ImportIdle
    /\ seeds \in SUBSET Tables \ {{}}
    /\ dependent_tables = {}
    /\ next_seed = 1
    /\ dfs_stack = <<>>
    /\ visited = {}
    /\ dependency_tree = {}
    /\ dpc = "start"
    /\ ConfigIdle

NextDependents == get_all_dependent_tables

SpecDependents == InitDependents /\ [][NextDependents]_vars

\* C19: get_all_dependent_tables returns exactly the given tables and every
\* table that foreign keys lead to from one of them, in one or more steps,
\* also in a graph with cycles or self-references.
C19_DependentTablesAreClosure ==
    dpc = "done" => dependent_tables = ReachableFrom(table_graph, seeds)

\* A call that returned more than the given tables, from a graph where a
\* given table refers to itself and another lies on a cycle of several tables.
C19_Witness ==
    /\ dpc = "done"
    /\ dependent_tables # seeds
    /\ \E t \in seeds : <<t, t>> \in table_graph
    /\ \E e \in table_graph :
           e[1] # e[2] /\ e[1] \in seeds /\ e[1] \in ReachableFrom(table_graph, {e[2]})

-----------------------------------------------------------------------------
\* The configuration: validate_table_configs_with_schema,
\* convert_to_config_per_subset and the file configs of
\* export_tables_per_config.

MaxSubsets == 2

\* inspector.get_table_names(schema), and a table name that is not among them.
SchemaTableNames == {"a", "b"}
UnknownTableName == "x"

\* inspector.get_columns(table, schema): the columns of each table; code is
\* NOT NULL without default, id has a default and name is nullable.
ActualColumns(table) == <<"id", "code", "name">>
SkippableColumns(table) == <<"id", "name">>

\* inspector.get_pk_constraint(table, schema)['constrained_columns']: table b
\* has no primary key.
ActualPkColumns(table) == IF table = "a" THEN <<"id">> ELSE <<>>

\* The columns of inspector.get_unique_constraints(table, schema): table a has
\* a unique constraint on name.
ActualUniqueColumns(table) == IF table = "a" THEN <<"name">> ELSE <<>>

\* validate_config_columns: the message of the exception it raises, or "none".
validate_config_columns(config_columns, actual_columns, skippable_columns, config_pk_columns) ==
    LET unknown_columns == Range(config_columns) \ Range(actual_columns)
        skipped_columns == Range(actual_columns) \ Range(config_columns)
        unallowable_skipped_columns == skipped_columns \ Range(skippable_columns)
        missing_pk_columns == Range(config_pk_columns) \ Range(config_columns)
    IN IF unknown_columns # {} THEN "'columns' not found in table"
       ELSE IF unallowable_skipped_columns # {} THEN "'columns' can't skip columns"
       ELSE IF missing_pk_columns # {} THEN "'columns' has to also contain primary/alternate keys"
       ELSE "none"

\* The names of a list of subset configs, in order.
SubsetNamesOf(subsets) == [i \in DOMAIN subsets |-> subsets[i].name]

\* validate_config_subsets without the comparison with the subsets of the
\* tables before.
validate_config_subsets_of_table(new_subsets, all_db_table_names, known_subsets) ==
    LET table_subset_names == SubsetNamesOf(new_subsets)
        self_duplicates == {table_subset_names[i] : i \in
                               {j \in DOMAIN table_subset_names :
                                   \E k \in DOMAIN table_subset_names :
                                       k # j /\ table_subset_names[k] = table_subset_names[j]}}
    IN IF self_duplicates # {} THEN "duplicate subset names"
       ELSE IF Range(table_subset_names) \cap all_db_table_names # {}
            THEN "subset name can't be the same as that of a table in the schema"
       ELSE "none"

\* validate_config_subsets: the message of the exception it raises, or "none".
validate_config_subsets(new_subsets, all_db_table_names, known_subsets) ==
    LET table_subset_names == SubsetNamesOf(new_subsets)
        self_duplicates == {table_subset_names[i] : i \in
                               {j \in DOMAIN table_subset_names :
                                   \E k \in DOMAIN table_subset_names :
                                       k # j /\ table_subset_names[k] = table_subset_names[j]}}
        duplicate_names == known_subsets \cap Range(table_subset_names)
    IN IF self_duplicates # {} THEN "duplicate subset names"
       ELSE IF Range(table_subset_names) \cap all_db_table_names # {}
            THEN "subset name can't be the same as that of a table in the schema"
       ELSE IF duplicate_names # {} THEN "subset names already in use"
       ELSE "none"

\* Columns are checked against the primary key alone, whatever the
\* alternate_key.
ConfigPkColumnsPrimaryOnly(table, table_config) == ActualPkColumns(table)

\* Lines 115-117: config_pk_columns
ConfigPkColumns(table, table_config) ==
    IF "alternate_key" \in DOMAIN table_config
    THEN table_config.alternate_key ELSE ActualPkColumns(table)

\* Lines 100-125, the body of the loop for one table: the message of the
\* exception raised, or "none".
ValidateTableConfig(table, table_config, known_subsets) ==
    LET columns_error ==
            IF "columns" \in DOMAIN table_config
            THEN validate_config_columns(table_config.columns, ActualColumns(table),
                                         SkippableColumns(table),
                                         ConfigPkColumns(table, table_config))
            ELSE "none"
        subsets_error ==
            IF "subsets" \in DOMAIN table_config
            THEN validate_config_subsets(table_config.subsets, SchemaTableNames, known_subsets)
            ELSE "none"
    IN IF /\ "alternate_key" \in DOMAIN table_config
          /\ Range(table_config.alternate_key) \ Range(ActualColumns(table)) # {}
       THEN "'alternate_key' columns not found in table"
       ELSE IF columns_error # "none" THEN columns_error
       ELSE subsets_error

configUnchanged == <<mergeVars, graphVars, importVars, dependentVars, tables_config>>

\* Lines 93-98: a table of the configuration that the schema does not hold
\* makes the configuration invalid before any table is looked at.
ValidateTableConfigs ==
    /\ cpc = "start"
    /\ LET unknown_tables == {tables_config[i].table : i \in DOMAIN tables_config}
                                 \ SchemaTableNames
       IN IF unknown_tables # {}
          THEN /\ config_error' = "table not found in database"
               /\ cpc' = "invalid"
          ELSE /\ cpc' = "validate"
               /\ UNCHANGED config_error
    /\ subset_names' = {}
    /\ next_entry' = 1
    /\ UNCHANGED <<configUnchanged, config_per_subset, file_configs>>

\* Lines 99-126, one iteration of the loop over the tables of the
\* configuration.
ValidateNextTable ==
    /\ cpc = "validate"
    /\ next_entry <= Len(tables_config)
    /\ LET table == tables_config[next_entry].table
           table_config == tables_config[next_entry].config
           message == ValidateTableConfig(table, table_config, subset_names)
       IN IF message # "none"
          THEN /\ config_error' = message
               /\ cpc' = "invalid"
               /\ UNCHANGED <<subset_names, next_entry>>
          ELSE /\ subset_names' =
                      IF "subsets" \in DOMAIN table_config
                      THEN subset_names \cup Range(SubsetNamesOf(table_config.subsets))
                      ELSE subset_names
               /\ next_entry' = next_entry + 1
               /\ UNCHANGED <<config_error, cpc>>
    /\ UNCHANGED <<configUnchanged, config_per_subset, file_configs>>

\* validate_table_configs_with_schema returns: the configuration is accepted.
ConfigAccepted ==
    /\ cpc = "validate"
    /\ next_entry > Len(tables_config)
    /\ cpc' = "valid"
    /\ UNCHANGED <<configUnchanged, subset_names, next_entry, config_error,
                   config_per_subset, file_configs>>

\* A config without the key.
WithoutKey(config, key) == [k \in DOMAIN config \ {key} |-> config[k]]

\* The places of the subset configs in the configuration: entry and index in
\* the entry's subsets, and their order in the configuration.
SubsetPlaces(config) ==
    {<<i, j>> \in (DOMAIN config) \X (1..MaxSubsets) :
        /\ "subsets" \in DOMAIN config[i].config
        /\ j \in DOMAIN config[i].config.subsets}

PlaceBefore(p, q) == p[1] < q[1] \/ (p[1] = q[1] /\ p[2] <= q[2])

\* convert_to_config_per_subset: for each subset name a copy of the config of
\* its table without 'subsets', with the keys of the subset config written
\* over it. For a name given twice the dict comprehensions keep the last table
\* and the last subset config.
convert_to_config_per_subset(config) ==
    LET places == SubsetPlaces(config)
        NameAt(p) == config[p[1]].config.subsets[p[2]].name
        names == {NameAt(p) : p \in places}
        LastPlace(name) == CHOOSE p \in places :
                               /\ NameAt(p) = name
                               /\ \A q \in places : NameAt(q) = name => PlaceBefore(q, p)
    IN [name \in names |->
           LET p == LastPlace(name)
               subset_config == config[p[1]].config.subsets[p[2]]
               parent == WithoutKey(config[p[1]].config, "subsets")
           IN subset_config @@ parent]

\* Lines 204-208 of import_all_new: the configuration is resolved per subset.
ConvertToConfigPerSubset ==
    /\ cpc = "valid"
    /\ config_per_subset' = convert_to_config_per_subset(tables_config)
    /\ cpc' = "converted"
    /\ UNCHANGED <<configUnchanged, subset_names, next_entry, config_error, file_configs>>

\* The config of a table in the configuration, or the empty one.
ConfigOfTable(config, table) ==
    IF \E i \in DOMAIN config : config[i].table = table
    THEN config[CHOOSE i \in DOMAIN config : config[i].table = table].config
    ELSE EmptyConfig

\* Lines 100-105 of export_tables_per_config: the parent's 'columns' is given
\* to the file configs that have none.
PropagateColumns(file_config, table_config) ==
    IF "columns" \in DOMAIN table_config /\ "columns" \notin DOMAIN file_config
    THEN [columns |-> table_config.columns] @@ file_config
    ELSE file_config

\* Lines 94-105 of export_tables_per_config: the file configs of a table, that
\* of the table itself first and then those of its subsets.
FileConfigsOfTable(table, table_config) ==
    IF "subsets" \in DOMAIN table_config
    THEN LET subsets == [j \in DOMAIN table_config.subsets |->
                            PropagateColumns(table_config.subsets[j], table_config)]
         IN <<[name |-> table, subsets |-> subsets]
                  @@ WithoutKey(table_config, "subsets")>> \o subsets
    ELSE <<[name |-> table] @@ table_config>>

\* The tables of the export: sorted(inspector.get_table_names(schema)).
ExportTables == <<"a", "b">>

\* export_tables_per_config: the file configs of every table of the export,
\* each with its table.
RECURSIVE ExportFileConfigs(_, _)
ExportFileConfigs(tables, config) ==
    IF tables = <<>> THEN <<>>
    ELSE LET table == Head(tables)
             of_table == FileConfigsOfTable(table, ConfigOfTable(config, table))
         IN [i \in DOMAIN of_table |-> [table |-> table, file_config |-> of_table[i]]]
                \o ExportFileConfigs(Tail(tables), config)

\* Lines 92-123 of export_tables_per_config
ExportTablesPerConfig ==
    /\ cpc = "valid"
    /\ file_configs' = ExportFileConfigs(ExportTables, tables_config)
    /\ cpc' = "exported"
    /\ UNCHANGED <<configUnchanged, subset_names, next_entry, config_error,
                   config_per_subset>>

\* Lines 107-110 and 114 of export_tables_per_config: the columns and the
\* where clause a file is exported with; no where clause is the empty set.
ExportColumns(table, file_config) ==
    IF "columns" \in DOMAIN file_config THEN file_config.columns ELSE ActualColumns(table)

ExportWhere(file_config) ==
    IF "where" \in DOMAIN file_config THEN {file_config.where} ELSE {}

\* The configs with the key and one of the values, and the one without it.
OptionalKey(key, values) == {EmptyConfig} \cup {[k \in {key} |-> v] : v \in values}

\* The lists of one to n elements of S.
ListsUpTo(S, n) == UNION {[1..m -> S] : m \in 1..n}

\* Table configs with 'columns' and 'alternate_key': all the columns, without
\* a skippable one, without the primary key, without the column that cannot be
\* skipped, with a column the table does not have.
ColumnTableConfigs ==
    {c @@ k :
        c \in OptionalKey("columns", {<<"id", "code", "name">>, <<"id", "code">>, <<"code">>,
                                      <<"id", "name">>, <<"id", "code", "zip">>}),
        k \in OptionalKey("alternate_key", {<<"name">>, <<"zip">>})}

\* Subset configs: {name, where?, columns?}; b is also the name of a table.
SubsetConfigs ==
    {[name |-> n] @@ x :
        n \in {"s", "t", "b"},
        x \in {EmptyConfig, [where |-> "v"], [columns |-> <<"id", "code">>],
               [columns |-> <<"code">>]}}

\* Table configs with subsets.
SubsetTableConfigs ==
    {[subsets |-> l] @@ c @@ w :
        l \in ListsUpTo(SubsetConfigs, MaxSubsets),
        c \in OptionalKey("columns", {<<"id", "code", "name">>}),
        w \in OptionalKey("where", {"w"})}

\* The table configs of the configurations of several tables.
SmallTableConfigs ==
    {EmptyConfig, [columns |-> <<"id", "name">>]}
    \cup {[subsets |-> l] : l \in ListsUpTo({[name |-> n] : n \in {"s", "t", "b"}}, MaxSubsets)}

\* The configuration files: the tables in the order of the file, each with its
\* config.
ConfigFiles ==
    {<<>>, <<[table |-> UnknownTableName, config |-> EmptyConfig]>>}
    \cup {<<[table |-> t, config |-> c]>> :
             t \in SchemaTableNames, c \in ColumnTableConfigs \cup SubsetTableConfigs}
    \cup {<<[table |-> t[1], config |-> c1], [table |-> t[2], config |-> c2]>> :
             t \in {<<"a", "b">>, <<"b", "a">>}, c1 \in SmallTableConfigs, c2 \in SmallTableConfigs}
    \cup {<<[table |-> t, config |-> c], [table |-> UnknownTableName, config |-> EmptyConfig]>> :
             t \in SchemaTableNames, c \in SmallTableConfigs}
    \cup {<<[table |-> UnknownTableName, config |-> EmptyConfig], [table |-> t, config |-> c]>> :
             t \in SchemaTableNames, c \in SmallTableConfigs}

InitConfig ==
    /\ pk_columns = <<"id">>
    /\ unique_constraints = <<>>
    /\ table_fks = TheTableFks
    /\ config_per_table = [t \in {"the_table", "other"} |-> EmptyConfig]
    /\ other = <<>>
    /\ dest = <<>>
    /\ MergeIdle
    /\ GraphIdle
    /\ ImportIdle
    /\ DependentsIdle
    /\ tables_config \in ConfigFiles
    /\ subset_names = {}
    /\ next_entry = 1
    /\ config_error = "none"
    /\ config_per_subset = <<>>
    /\ file_configs = <<>>
    /\ cpc = "start"

NextConfig ==
    \/ ValidateTableConfigs
    \/ ValidateNextTable
    \/ ConfigAccepted
    \/ ConvertToConfigPerSubset
    \/ ExportTablesPerConfig

SpecConfig == InitConfig /\ [][NextConfig]_vars

-----------------------------------------------------------------------------
\* Claims about the configuration.

\* validate_table_configs_with_schema has returned or raised.
Validated == cpc \notin {"idle", "start", "validate"}

Accepted == cpc \in {"valid", "converted", "exported"}

\* The rules for the table entry: the table exists in the schema;
\* 'alternate_key' holds columns of the table only; 'columns' holds columns of
\* the table only, every column it leaves out is nullable or has a default and
\* it holds every identifier column, the alternate_key if configured and the
\* primary key otherwise.
EntryRulesHold(entry) ==
    LET table == entry.table
        config == entry.config
        table_columns == Range(ActualColumns(table))
        identifier == IF "alternate_key" \in DOMAIN config
                      THEN Range(config.alternate_key)
                      ELSE Range(ActualPkColumns(table))
    IN /\ table \in SchemaTableNames
       /\ "alternate_key" \in DOMAIN config =>
              \A c \in Range(config.alternate_key) : c \in table_columns
       /\ "columns" \in DOMAIN config =>
              /\ \A c \in Range(config.columns) : c \in table_columns
              /\ \A c \in table_columns :
                     c \notin Range(config.columns) => c \in Range(SkippableColumns(table))
              /\ \A c \in identifier : c \in Range(config.columns)

\* C17: a configuration with a table entry that breaks one of the rules is
\* rejected with ConfigInvalid, and an accepted configuration has every entry
\* keep all of them.
C17_RulesEnforced ==
    Validated =>
        /\ (\E i \in DOMAIN tables_config : ~EntryRulesHold(tables_config[i])) =>
               (cpc = "invalid" /\ config_error # "none")
        /\ Accepted => \A i \in DOMAIN tables_config : EntryRulesHold(tables_config[i])

\* A configuration rejected because 'columns' leaves out a column of the
\* configured alternate_key.
C17_Witness ==
    /\ cpc = "invalid"
    /\ config_error = "'columns' has to also contain primary/alternate keys"
    /\ "alternate_key" \in DOMAIN tables_config[next_entry].config
    /\ Range(ActualPkColumns(tables_config[next_entry].table))
           \subseteq Range(tables_config[next_entry].config.columns)

\* The subset names of the configuration are pairwise distinct, within a table
\* and across the tables, and none is the name of a table of the schema.
SubsetNamesDistinct ==
    LET places == SubsetPlaces(tables_config)
        NameAt(p) == tables_config[p[1]].config.subsets[p[2]].name
    IN /\ \A p, q \in places : p # q => NameAt(p) # NameAt(q)
       /\ \A p \in places : NameAt(p) \notin SchemaTableNames

\* C18: an accepted configuration has subset names that are pairwise distinct
\* across all its tables and differ from every table name of the schema; a
\* configuration that breaks either condition is rejected with ConfigInvalid,
\* in whatever order its tables are listed.
C18_SubsetNamesDistinct ==
    Validated =>
        /\ ~SubsetNamesDistinct => (cpc = "invalid" /\ config_error # "none")
        /\ Accepted => SubsetNamesDistinct

\* A configuration rejected at its second table, listed before the first one
\* of the schema, for a subset name the table before it uses.
C18_Witness ==
    /\ cpc = "invalid"
    /\ config_error = "subset names already in use"
    /\ next_entry = 2
    /\ tables_config[1].table = "b"
    /\ tables_config[2].table = "a"

\* C20: each subset is exported with the columns and the where clause of the
\* config that convert_to_config_per_subset resolves for it: those of the
\* subset where it defines them and those of its table otherwise.
C20_ExportUsesEffectiveConfig ==
    cpc = "exported" =>
        \A i \in DOMAIN file_configs :
            LET table == file_configs[i].table
                file_config == file_configs[i].file_config
                resolved == convert_to_config_per_subset(tables_config)
            IN file_config.name # table =>
                   /\ ExportColumns(table, file_config)
                          = ExportColumns(table, resolved[file_config.name])
                   /\ ExportWhere(file_config) = ExportWhere(resolved[file_config.name])

\* C21: in the summary of a run that merged every file without error, the
\* number of tables reported as imported successfully equals the number of
\* files imported, also when several files are merged into the same table.
C21_SummaryCountsFiles ==
    (ipc = "done" /\ error_tables = <<>> /\ skipped_files = <<>>) =>
        /\ success_files = Len(merged)
        /\ success_tables = success_files

C23_BreakCyclesRemovesEdges ==
    /\ graph_error # "NetworkXError"
    /\ gpc \in {"topological_sort", "done"} =>
           LET cycles == SortCycles(nx_simple_cycles(table_graph))
           IN /\ edges_removed = [i \in DOMAIN cycles |->
                                      <<cycles[i][1], cycles[i][Len(cycles[i])]>>]
              /\ copy_of_graph = table_graph \ Range(edges_removed)

\* No foreign keys of the cycle-broken graph lead from one table to the other.
Unconstrained(s, t) ==
    /\ s \notin ReachableFrom(copy_of_graph, {t})
    /\ t \notin ReachableFrom(copy_of_graph, {s})

\* C24: get_insertion_order breaks ties by name: of two tables whose relative
\* order the cycle-broken graph leaves unconstrained, the one with the smaller
\* name comes first in the returned order.
C24_TiesBrokenByName ==
    gpc = "done" =>
        \A s, t \in graph_tables :
            (s < t /\ Unconstrained(s, t)) =>
                IndexOf(insertion_order, s) < IndexOf(insertion_order, t)

\* C25: with foreign keys suspended, session_replication_role is REPLICA from
\* before the first merge and during every merge, it is set back to DEFAULT
\* after the last merge and before the commit, and whenever a run commits the
\* foreign-key checks are enabled.
C25_ForeignKeysSuspendedAroundMerges ==
    [][ /\ (suspend_foreign_keys /\ ipc = "merge" /\ next_pair <= Len(import_pairs)) =>
               session_replication_role = "REPLICA"
        /\ (ipc = "merge" /\ ipc' = "commit") =>
               (next_pair > Len(import_pairs) /\ session_replication_role' = "DEFAULT")
        /\ (commits' # commits) =>
               (session_replication_role = "DEFAULT" /\ session_replication_role' = "DEFAULT")
      ]_vars

\* A run with foreign keys suspended that merged two files and committed.
C25_Witness ==
    /\ suspend_foreign_keys
    /\ ipc = "done"
    /\ commits = 1
    /\ Len(merged) >= 2
    /\ session_replication_role = "DEFAULT"

\* The positions of pg_upsert in the order of its statements: each names the
\* statement executed next.
PgUpsertSteps ==
    <<"queued", "create_tmp_copy", "copy", "analyze_tmp_copy", "create_tmp_final",
      "create_index", "delete_identical", "insert", "delete_inserted", "update",
      "drop_tmp_copy", "drop_tmp_final", "analyze_dest", "done">>

StepsDone(position) == IndexOf(PgUpsertSteps, position) - 1

\* C26: pg_upsert performs its steps strictly in order: create the first
\* temporary table, COPY, ANALYZE, create the second temporary table and its
\* index, delete identical rows (skip), insert missing rows (insert), delete
\* the rows just inserted, update the remaining rows (update), drop both
\* temporary tables, ANALYZE the destination; it is done only after all of
\* them, with both temporary tables gone.
C26_StepsInOrder ==
    [][ pc' # pc =>
          \/ pc = "start" /\ pc' = "queued"
          \/ pc' = "failed"
          \/ /\ pc \in Range(PgUpsertSteps) /\ pc' \in Range(PgUpsertSteps)
             /\ StepsDone(pc') = StepsDone(pc) + 1
             \* the first temporary table exists from its creation to its drop
             /\ tmp_copy'.exists = (StepsDone(pc') \in 2..10)
             \* the second from its creation to its drop
             /\ tmp_final'.exists = (StepsDone(pc') \in 5..11)
             \* each count is set by its own step
             /\ stats'.total # stats.total => pc = "copy"
             /\ stats'.skip # stats.skip => pc = "delete_identical"
             /\ stats'.insert # stats.insert => pc = "insert"
             /\ stats'.update # stats.update => pc = "update"
             \* the destination changes in the insert and the update only
             /\ dest' # dest => pc \in {"insert", "update"}
      ]_vars

\* A merge that went through every step, inserting and updating rows.
C26_Witness ==
    /\ pc = "done"
    /\ stats.insert > 0
    /\ stats.update > 0
    /\ dest # dest_before
    /\ ~tmp_copy.exists
    /\ ~tmp_final.exists

(***************************************************************************)
(* replace_local_columns_with_alternate_keys on its own (db_export.py):    *)
(* any selection of local columns of a table with up to two foreign keys,  *)
(* to the tables other and third, each with or without alternate_key.      *)
(***************************************************************************)
MaxLocalColumns == 3

LocalColumnNames == {"id", "code", "ref", "ref2"}

\* Lists of distinct column names, up to n of them.
ColumnLists(n) ==
    {l \in SeqsUpTo(LocalColumnNames, n) :
        l # <<>> /\ \A i, j \in DOMAIN l : i # j => l[i] # l[j]}

\* The foreign keys of a table: none, one or two, over one or two columns
\* each, no column being in two foreign keys.
ForeignKeyLists ==
    {<<>>}
    \cup {<< [name |-> "fk1", constrained_columns |-> c1, referred_table |-> t1,
             referred_columns |-> <<"id">>] >> :
             c1 \in ColumnLists(2), t1 \in {"other", "third"}}
    \cup {<< [name |-> "fk1", constrained_columns |-> cc[1], referred_table |-> tt[1],
             referred_columns |-> <<"id">>],
            [name |-> "fk2", constrained_columns |-> cc[2], referred_table |-> tt[2],
             referred_columns |-> <<"id">>] >> :
             cc \in {c \in ColumnLists(2) \X ColumnLists(2) : Range(c[1]) \cap Range(c[2]) = {}},
             tt \in {"other", "third"} \X {"other", "third"}}

InitRewrite ==
    /\ pk_columns = <<"id">>
    /\ unique_constraints = <<>>
    /\ table_fks \in ForeignKeyLists
    /\ \E cfg \in {EmptyConfig, [alternate_key |-> <<"code">>],
                   [alternate_key |-> <<"code", "name">>]} :
       \E cfg3 \in {EmptyConfig, [alternate_key |-> <<"name">>]} :
           config_per_table = [the_table |-> EmptyConfig, other |-> cfg, third |-> cfg3]
    /\ other = <<>>
    /\ dest = <<>>
    /\ file = <<>>
    /\ file_source = "none"
    /\ pc = "rewrite"
    /\ run = 1
    /\ columns \in ColumnLists(MaxLocalColumns)
    /\ id_columns = <<>>
    /\ foreign_columns = <<>>
    /\ tmp_copy = NoTable
    /\ tmp_final = NoTable
    /\ stats = NoStats
    /\ error = "none"
    /\ dest_before = <<>>
    /\ inserted = <<>>
    /\ updated = {}
    /\ first_stats = NoStats
    /\ GraphIdle
    /\ ImportIdle
    /\ DependentsIdle
    /\ ConfigIdle

\* replace_local_columns_with_alternate_keys is called with the selected columns.
ReplaceLocalColumns ==
    /\ pc = "rewrite"
    /\ foreign_columns' = replace_local_columns_with_alternate_keys("the_table", columns)
    /\ pc' = "rewritten"
    /\ UNCHANGED <<catalogVars, dest, file, file_source, run, columns, id_columns, tmp_copy,
                   tmp_final, stats, error, dest_before, inserted, updated, first_stats,
                   graphVars, importVars, dependentVars, configVars>>

NextRewrite == ReplaceLocalColumns

SpecRewrite == InitRewrite /\ [][NextRewrite]_vars

\* A foreign key whose local columns are all selected and whose referenced
\* table has an alternate_key.
Rewritten(fky) ==
    /\ Range(fky.constrained_columns) \subseteq Range(columns)
    /\ fky.referred_table \in DOMAIN config_per_table
    /\ "alternate_key" \in DOMAIN config_per_table[fky.referred_table]

\* What the rewrite is to leave at the place of the i-th selected column: the
\* column itself, or the alternate-key columns of the referenced table if it
\* is the first column of a rewritten foreign key, or nothing if a later one.
RewriteOfColumn(i) ==
    LET keys == {k \in DOMAIN table_fks :
                    /\ Rewritten(table_fks[k])
                    /\ columns[i] \in Range(table_fks[k].constrained_columns)}
    IN IF keys = {} THEN << [col |-> columns[i], path |-> <<>>] >>
       ELSE LET fky == table_fks[CHOOSE k \in keys : TRUE]
                alternate_key == config_per_table[fky.referred_table]["alternate_key"]
            IN IF \A c \in Range(fky.constrained_columns) : IndexOf(columns, c) >= i
               THEN [j \in DOMAIN alternate_key |->
                        [col |-> alternate_key[j], path |-> <<fky.name>>]]
               ELSE <<>>

\* C27: the rewrite replaces, for each foreign key whose local columns are all
\* selected and whose referenced table has an alternate_key, exactly that
\* key's local columns by the alternate-key columns with path [fk], the group
\* at the place of the first replaced column; every other column keeps its
\* relative order and an empty path.
C27_RewriteReplacesFkColumns ==
    pc = "rewritten" =>
        foreign_columns = Flatten([i \in DOMAIN columns |-> RewriteOfColumn(i)])

(***************************************************************************)
(* Merging any file into a table whose foreign key is resolved through an  *)
(* alternate key: the key of the_table refers to other, configured with    *)
(* alternate_key [code] and holding any rows, or it refers to the_table    *)
(* itself, configured with alternate_key [code].                           *)
(***************************************************************************)
\* the_table.ref refers to the_table.id
SelfReference ==
    << [name |-> "fk", constrained_columns |-> <<"ref">>,
        referred_table |-> "the_table", referred_columns |-> <<"id">>] >>

InitTranslate ==
    /\ pk_columns = <<"id">>
    /\ unique_constraints = <<>>
    /\ \/ /\ table_fks = TheTableFks
          /\ config_per_table = [the_table |-> EmptyConfig,
                                 other |-> [alternate_key |-> <<"code">>]]
          /\ other \in OtherContents
       \/ /\ table_fks = SelfReference
          /\ config_per_table = [the_table |-> [alternate_key |-> <<"code">>],
                                 other |-> EmptyConfig]
          /\ other = <<>>
    /\ dest \in DestContents(other)
    /\ MergeIdle
    /\ GraphIdle
    /\ ImportIdle
    /\ DependentsIdle
    /\ ConfigIdle

NextTranslate == WriteFile \/ pg_upsert

SpecTranslate == InitTranslate /\ [][NextTranslate]_vars

\* The rows of a referenced table when _tmp_final is created: the destination
\* is changed only after that.
ReferencedRows(table) == IF table = "the_table" THEN dest_before ELSE other

\* The alternate-key values of a row of the file match no row of the table its
\* foreign key refers to (the match of the join: equal, or both NULL).
Unmatched(tuple) ==
    \E f \in DOMAIN table_fks :
        LET fk == table_fks[f]
            join_idxs == {i \in DOMAIN foreign_columns : foreign_columns[i].path = <<fk.name>>}
        IN /\ join_idxs # {}
           /\ ~\E o \in Range(ReferencedRows(fk.referred_table)) :
                  \A i \in join_idxs : NullSafeEq(tuple[i], o[foreign_columns[i].col])

\* The row of the destination an unmatched row of the file is to become.
WithNullReference(tuple) == [id |-> tuple[1], code |-> tuple[2], ref |-> NULL]

\* No other row of the file has the identifier of row i.
OnlyRowWithItsIdentifier(i) ==
    \A j \in DOMAIN file :
        j # i => \E c \in Range(id_columns) :
                     WithNullReference(file[i])[c] # WithNullReference(file[j])[c]

\* C28: a row of the file whose alternate-key values match no row of the
\* referenced table when the file is translated gets NULL in its local
\* foreign-key column, the translation raising no error, and is merged so;
\* also when the referenced row is an earlier row of the same file.
C28_UnmatchedReferenceIsNull ==
    /\ pc = "create_index" =>
           /\ tmp_final.exists
           /\ \A i \in DOMAIN tmp_copy.rows :
                  Unmatched(tmp_copy.rows[i]) =>
                      \E j \in DOMAIN tmp_final.rows :
                          tmp_final.rows[j] = WithNullReference(tmp_copy.rows[i])
    /\ pc = "done" =>
           \A i \in DOMAIN file :
               (Unmatched(file[i]) /\ OnlyRowWithItsIdentifier(i)) =>
                   \E d \in DOMAIN dest : dest[d] = WithNullReference(file[i])

\* A file of the self-referencing table merged without error: its first row is
\* new and its second row names the first as its parent, which was not in the
\* table when the file was translated; both are in the table, without parent.
C28_Witness ==
    /\ table_fks = SelfReference
    /\ pc = "done"
    /\ Len(file) = 2
    /\ file[2][3] = file[1][2]
    /\ file[2][3] # NULL
    /\ Unmatched(file[2])
    /\ stats.insert = 2
    /\ \A i \in DOMAIN file : \E d \in DOMAIN dest : dest[d] = WithNullReference(file[i])

\* C29: the translation preserves the row count: _tmp_final holds exactly one
\* row per row of _tmp_copy, whatever the referenced table holds, also when
\* the referenced alternate key is not unique or holds NULLs.
C29_TranslatePreservesRowCount ==
    (pc = "create_index" /\ tmp_final.exists) =>
        Len(tmp_final.rows) = Len(tmp_copy.rows)

\* pg_upsert, lines 116-137, for a file of a table of the schema: the exception
\* its checks raise for the file_config, or "none".
PgUpsertChecks(table, file_config) ==
    LET all_columns == ActualColumns(table)
        file_columns == IF "columns" \in DOMAIN file_config
                        THEN file_config.columns ELSE all_columns
        identifier == IF "alternate_key" \in DOMAIN file_config
                      THEN file_config.alternate_key
                      ELSE ActualPkColumns(table) \o ActualUniqueColumns(table)
    IN IF Len(identifier) = 0 THEN "UnsupportedSchema"
       ELSE IF Range(file_columns) \ Range(all_columns) # {} THEN "InputParameters"
       ELSE IF Range(identifier) \ Range(file_columns) # {} THEN "InputParameters"
       ELSE "none"

\* Lines 203-219 of import_all_new: the table and the file_config pg_upsert is
\* called with for the file of each table of the configuration and for the
\* file of each of its subsets.
ImportFileConfigs(config) ==
    {[table |-> config[i].table, file_config |-> config[i].config] : i \in DOMAIN config}
    \cup {[table |-> config[p[1]].table,
           file_config |-> convert_to_config_per_subset(config)[
                               config[p[1]].config.subsets[p[2]].name]] :
             p \in SubsetPlaces(config)}

\* C30: for a configuration that validate_table_configs_with_schema accepts,
\* the column checks of pg_upsert hold for the file of every table and of
\* every subset: no merge raises InputParameters.
C30_AcceptedConfigPassesColumnChecks ==
    cpc \in {"valid", "converted", "exported"} =>
        \A f \in ImportFileConfigs(tables_config) :
            PgUpsertChecks(f.table, f.file_config) # "InputParameters"
=============================================================================
